---- MODULE Spec2Model ----
(***************************************************************************)
(* Verification model of the SENTINEL alert pipeline:                      *)
(*   - AlertSystem (src/src/alerts/alertSystem.ts, lines 108-787): the     *)
(*     cooldown table, the per-sink rate limiter, the retry loop, the      *)
(*     concurrent fan-out to the sinks and the bounded alert history;      *)
(*   - the coordinating loop Sentinel.monitorLoop (src/src/index.ts).      *)
(*                                                                         *)
(* Time is the value of Date.now() in milliseconds.  Health factors and    *)
(* probabilities are fixed-point numbers scaled by 100 (1.3 is 130).       *)
(* One TLA+ step is one run-to-completion segment of the JavaScript event  *)
(* loop: the code between two suspension points (await) that really yield. *)
(***************************************************************************)
EXTENDS Integers, Sequences, FiniteSets, TLC

\* ------------------------------------------------------------------ bounds
MaxTicks == 2            \* alert clock: Epoch + k * TickMs, k <= MaxTicks
TickMs == 30000          \* clock resolution of the model, ms
MaxRequests == 3         \* alert requests, one call at a time, one sink
MaxOverlapRequests == 2  \* alert requests of overlapping calls
MaxDeliveries == 2       \* alert requests, one call at a time, two sinks
MaxStatsRequests == 2    \* alert requests with the round outcomes observed
MaxRate == 1             \* largest explicit rateLimitPerMinute of sink w1
MaxRetry == 1            \* largest explicit retryAttempts of sink w2
MaxCycles == 2           \* monitoring cycles of the coordinating loop
MaxLoopTicks == 1        \* loop clock: Epoch + k * TickMs, k <= MaxLoopTicks
MaxHistoryAlerts == 1002 \* alerts pushed in the history specification
MaxAddresses == 2        \* watched addresses of a bulk fetch
MaxAccounts == 2         \* accounts returned by one owner query
MaxVariedSlots == 4      \* leading position slots whose content varies
MaxAssessed == 2         \* positions assessed one after the other
MaxPrices == 12          \* prices fed to one mint's history
MaxShocks == 1           \* price changes in one history
MaxGarchCalls == 7       \* GARCH evaluations of one mint
MaxBankVersions == 2     \* on-chain updates of one bank
MaxBankInflight == 1     \* bank queries awaiting the RPC answer
MaxReconnects == 4       \* the largest configured reconnect attempt count
MaxClosures == 6         \* transport closures of one channel
MaxAccountChanges == 2   \* health-factor changes of the scanned accounts
MaxAuditPositions == 2   \* positions of one audited cycle
MaxRevealPasses == 1     \* calls of revealAllPending

\* ------------------------------------------------------- program constants
cooldownMs == 60000            \* AlertSystem.cooldownMs
criticalCooldown == 30000      \* customCooldown passed by sendCriticalAlert
rateWindow == 60000            \* window in isRateLimited
defaultRateLimit == 10         \* webhook.rateLimitPerMinute || 10
maxRetries == 3                \* AlertSystem.maxRetries
backoffBase == 1000            \* 1000 * 2^(attempt-1)
backoffCap == 10000            \* Math.min(..., 10000)
historyCap == 1000             \* alertHistory.length > 1000
historyDefaultLimit == 50      \* getAlertHistory(limit = 50)
healthFactorWarning == 130     \* thresholds.healthFactorWarning = 1.3
healthFactorCritical == 110    \* thresholds.healthFactorCritical = 1.1
liquidationProbability == 70   \* thresholds.liquidationProbability = 0.7
distanceToLiquidationPercent == 10
criticalDistancePercent == 5   \* riskScore.distanceToLiquidation <= 5
collateralRatioWarning == 150  \* thresholds.collateralRatioWarning = 1.5
collateralRatioCritical == 120 \* thresholds.collateralRatioCritical = 1.2
criticalHealthThreshold == 110     \* config.criticalHealthThreshold = 1.1
liquidationWarningThreshold == 130 \* config.liquidationWarningThreshold = 1.3
predictionHorizonMinutes == 30     \* config.predictionHorizonMinutes
loopRateLimit == 30            \* rateLimitPerMinute of the coordinator's sink
loopRetryAttempts == 3         \* retryAttempts of the coordinator's sink
cycleMs == 10000               \* sleep(Math.max(1000, 10000 - cycleDuration))
minSleepMs == 1000
predictionGate == 30           \* minutesToLiquidation is finite only if probability > 0.3
Infinity == 1000000            \* the number Infinity
errorSleepMs == 5000           \* await this.sleep(5000) in the loop's catch
marginfiAccountSize == 2272    \* { dataSize: 2272 }
marginfiHeaderLen == 72        \* let offset = 72 (discriminator, owner, group)
marginfiBalanceSlots == 16     \* for (let i = 0; i < 16; i++)
driftPositionSlots == 8        \* for (let i = 0; i < 8; i++)
driftSentinelSkip == 126       \* offset += 126 after an unused slot's index
placeholderHealthFactor == 150 \* healthFactor: 1.5 of a fetched position
probabilityCap == 9800000      \* Math.min(probability, 0.98), in 1e-7
thirtyMinuteCap == 9900000     \* Math.min(thirtyMinuteProbability, 0.99)
hourlyCap == 9500000           \* Math.min(hourlyProbability, 0.95)
previousProbabilityCap == 9500000   \* the previous revision: 0.95
previousThirtyMinuteCap == 9800000  \* the previous revision: 0.98
volatilityMinPrices == 10   \* prices.length < 10
garchMinReturns == 10       \* returns.length < 10
periodsPerYear == 8760      \* 365 * 24
priceHistoryCap == 100      \* priceHistory.length > 100

\* ------------------------------------------------------------ vocabularies
W == {"w1", "w2"}                       \* sink names (WebhookConfig.name)
CallIds == {"c1", "c2"}                 \* concurrently running send*Alert calls
Positions == {"p1", "p2"}               \* Position.id
NoPos == ""                             \* positionId of an info alert
AlertTypes == {"warning", "critical", "prediction", "info"}
NA == 0 - 1                             \* an absent (undefined) number
Epoch == TickMs                         \* Date.now() at start-up: never 0

VARIABLES
    now,           \* Date.now()
    webhooks,      \* AlertSystem.webhooks: sink name -> WebhookConfig
    alertHistory,  \* AlertSystem.alertHistory
    cooldownMap,   \* AlertSystem.cooldownMap: <<type, position>> -> time or NA
    rateLimitMap,  \* AlertSystem.rateLimitMap: sink name -> timestamps
    webhookStats,  \* AlertSystem.webhookStats: sink name -> counters
    callPc,        \* per call: "idle" | "awaiting" (suspended in allSettled)
    callAlert,     \* per call: the alert being dispatched
    delivery,      \* per call and sink: progress of the async delivery task
    callResult,    \* per call: how the last send*Alert call ended
    callFailed,    \* per call: the last dispatch had a terminal sink failure
    alertSerial,   \* number of alerts dispatched so far (dispatch order)
    reqLog,        \* observation log: one record per send*Alert request
    loopPc,        \* monitorLoop: where the coordinating loop stands
    isShuttingDown,\* Sentinel.isShuttingDown
    processExited, \* process.exit() has been called
    positions,     \* Sentinel.positions: the positions of the current cycle
    posIdx,        \* index of the position being processed
    scored,        \* ids of the positions calculateRisk was called on this cycle
    cycleStart,    \* cycleStart of the current cycle
    sleepUntil,    \* when the sleep at the end of the cycle is over
    cycles,        \* cycles started so far
    serviceStatus, \* Sentinel.serviceStatus
    loopCaught,    \* what the per-position catch of monitorLoop last caught
    fetchState,    \* PositionMonitor: the watched addresses and a bulk fetch
    decodeState,   \* MarginfiMonitor: the accounts of an owner query being decoded
    slotState,     \* DriftMonitor: a user account whose position slots are parsed
    riskState,     \* RiskEngine: a position and what was computed for it
    healthState,   \* the RPC transport and the /health query
    garchState,    \* RiskEngine: the price history of an asset and its volatility
    bankState,     \* MarginfiMonitor.bankCache and the operations on it
    channelState,  \* MarginfiMonitor: the account subscriptions
    scanState,     \* PositionMonitor: the accounts on chain and the bulk fetches
    auditState     \* SolprismRiskGuard: commitments and reveals

alertVars == <<webhooks, alertHistory, cooldownMap, rateLimitMap, webhookStats, callPc,
               callAlert, delivery, callResult, callFailed, alertSerial, reqLog>>
loopVars == <<loopPc, isShuttingDown, processExited, positions, posIdx, scored, cycleStart, sleepUntil,
              cycles, serviceStatus, loopCaught>>
dataVars == <<fetchState, decodeState, slotState, riskState, healthState, garchState,
             bankState, channelState, scanState, auditState>>

\* What the steps of one data-path component leave alone.
allButFetch == <<now, alertVars, loopVars, decodeState, slotState, riskState, healthState, garchState,
    bankState, channelState, scanState, auditState>>
allButDecode == <<now, alertVars, loopVars, fetchState, slotState, riskState, healthState, garchState,
    bankState, channelState, scanState, auditState>>
allButSlot == <<now, alertVars, loopVars, fetchState, decodeState, riskState, healthState, garchState,
    bankState, channelState, scanState, auditState>>
allButRisk == <<now, alertVars, loopVars, fetchState, decodeState, slotState, healthState, garchState,
    bankState, channelState, scanState, auditState>>
allButHealth == <<now, alertVars, loopVars, fetchState, decodeState, slotState, riskState, garchState,
    bankState, channelState, scanState, auditState>>
allButGarch == <<now, alertVars, loopVars, fetchState, decodeState, slotState, riskState, healthState,
    bankState, channelState, scanState, auditState>>
allButBank == <<now, alertVars, loopVars, fetchState, decodeState, slotState, riskState, healthState,
    garchState, channelState, scanState, auditState>>
allButChannel == <<now, alertVars, loopVars, fetchState, decodeState, slotState, riskState, healthState,
    garchState, bankState, scanState, auditState>>
allButScan == <<now, alertVars, loopVars, fetchState, decodeState, slotState, riskState, healthState,
    garchState, bankState, channelState, auditState>>
allButAudit == <<now, alertVars, loopVars, fetchState, decodeState, slotState, riskState, healthState,
    garchState, bankState, channelState, scanState>>
vars == <<now, alertVars, loopVars, dataVars>>

\* ------------------------------------------------------------ pure helpers
Min(a, b) == IF a < b THEN a ELSE b
Max(a, b) == IF a > b THEN a ELSE b

RECURSIVE Pow2(_)
Pow2(n) == IF n <= 0 THEN 1 ELSE 2 * Pow2(n - 1)

\* `x || d` on numbers: 0 (like undefined) is falsy and yields the default.
OrDefault(x, d) == IF x = 0 \/ x = NA THEN d ELSE x

NoRisk == [healthFactor |-> NA, collateralRatio |-> NA, distanceToLiquidation |-> NA]
NoPrediction == [probability |-> NA, minutesToLiquidation |-> NA]

NoAlert == [id |-> NA, type |-> "none", positionId |-> NoPos, timestamp |-> NA,
            healthFactor |-> NA, collateralRatio |-> NA,
            distanceToLiquidation |-> NA, probability |-> NA, serial |-> 0]

NoDelivery == [st |-> "none", attempts |-> 0, retryGap |-> NA]

\* The key of the cooldown table: `${type}-${position.id}`.
AlertKey(type, pos) == <<type, pos>>

\* customCooldown argument of isOnCooldown: 30000 for critical, undefined else.
CustomCooldown(type) == IF type = "critical" THEN criticalCooldown ELSE NA

\* isOnCooldown(key, customCooldown) evaluated at time t.
isOnCooldown(cm, key, customCooldown, t) ==
    LET lastAlert == cm[key]
        cooldown == OrDefault(customCooldown, cooldownMs)
    IN  IF lastAlert = NA \/ lastAlert = 0 THEN FALSE
        ELSE t - lastAlert < cooldown

\* setCooldown(key): the table after the call at time t.
setCooldown(cm, key, t) == [cm EXCEPT ![key] = t]

\* shouldSendWarning(riskScore) on the data of a warning alert.
shouldSendWarning(a) ==
    \/ a.healthFactor <= healthFactorWarning
    \/ a.collateralRatio <= collateralRatioWarning
    \/ a.distanceToLiquidation <= distanceToLiquidationPercent

\* shouldSendCritical(riskScore) on the data of a critical alert.
shouldSendCritical(a) ==
    \/ a.healthFactor <= healthFactorCritical
    \/ a.collateralRatio <= collateralRatioCritical
    \/ a.distanceToLiquidation <= criticalDistancePercent

\* shouldSendPrediction(prediction) on the data of a prediction alert.
shouldSendPrediction(a) == a.probability >= liquidationProbability

\* shouldSendToWebhook(alert, webhook); alertTypes is left at its default
\* (all four types) and no sink carries customThresholds.
shouldSendToWebhook(alert, webhook) ==
    /\ webhook.enabled
    /\ ~(alert.type = "warning" /\ alert.healthFactor > healthFactorWarning)
    /\ ~(alert.type = "critical" /\ alert.healthFactor > healthFactorCritical)
    /\ ~(alert.type = "prediction" /\ alert.probability < liquidationProbability)

\* The limit handed to isRateLimited: webhook.rateLimitPerMinute || 10.
EffectiveRateLimit(webhook) == OrDefault(webhook.rateLimitPerMinute, defaultRateLimit)

\* Mutant: old timestamps are never dropped from the window.
isRateLimitedNoExpiry(timestamps, limit, t) ==
    IF Len(timestamps) >= limit
    THEN [limited |-> TRUE, timestamps |-> timestamps]
    ELSE [limited |-> FALSE, timestamps |-> Append(timestamps, t)]

\* isRateLimited(webhookName, limit) at time t, on the sink's stored
\* timestamps: the verdict and the timestamps stored afterwards.
isRateLimited(timestamps, limit, t) ==
    LET recentTimestamps == SelectSeq(timestamps, LAMBDA ts : t - ts < rateWindow)
    IN  IF Len(recentTimestamps) >= limit
        THEN [limited |-> TRUE, timestamps |-> timestamps]
        ELSE [limited |-> FALSE, timestamps |-> Append(recentTimestamps, t)]

\* The counters initializeWebhookStats gives a sink.
NoStats == [totalSent |-> 0, successCount |-> 0, failureCount |-> 0,
            rateLimitHits |-> 0]

\* updateWebhookStats(webhookName, update) on the counters of the sinks:
\* Object.assign(stats, update) stores the fields of `update` as they are.
updateWebhookStats(allStats, webhookName, update) ==
    IF webhookName \notin DOMAIN allStats THEN allStats
    ELSE [allStats EXCEPT ![webhookName] =
             [f \in DOMAIN @ |-> IF f \in DOMAIN update THEN update[f] ELSE @[f]]]

\* maxAttempts of sendWithRetry: webhook.retryAttempts || this.maxRetries.
maxAttempts(webhook) == OrDefault(webhook.retryAttempts, maxRetries)

\* The delay of the catch branch of sendWithRetry after failed attempt k.
BackoffDelay(attempt) == Min(backoffBase * Pow2(attempt - 1), backoffCap)

\* Mutant: the alert reaches the history only if a sink is configured.
PushHistoryIfSinks(history, alert) ==
    IF DOMAIN webhooks = {} THEN history ELSE Append(history, alert)

\* Mutant: the comparison with the cap is reversed.
PushHistoryReversedTest(history, alert) ==
    LET pushed == Append(history, alert)
    IN  IF Len(pushed) < historyCap THEN Tail(pushed) ELSE pushed

\* alertHistory.push(alert); if (length > 1000) alertHistory.shift().
PushHistory(history, alert) ==
    LET pushed == Append(history, alert)
    IN  IF Len(pushed) > historyCap THEN Tail(pushed) ELSE pushed

\* getAlertHistory(limit): alertHistory.slice(-limit); slice(-0) is the whole array.
getAlertHistory(history, limit) ==
    IF limit = 0 \/ limit >= Len(history) THEN history
    ELSE SubSeq(history, Len(history) - limit + 1, Len(history))

\* Mutant: the sinks are served one after the other, each awaited in turn.
StartedAtDispatchSequential(eligible) ==
    IF "w1" \in eligible THEN {"w1"} ELSE eligible

\* eligibleWebhooks.map(async webhook => ...): every async sink task runs
\* synchronously up to its first real suspension, the HTTP request of its
\* first attempt, so all of them are under way when dispatchAlert suspends.
StartedAtDispatch(eligible) == eligible

\* Mutant: a terminal sink failure is rethrown to the caller.
DispatchOutcomeRethrow(results) ==
    IF \E w \in DOMAIN results : results[w] = "failed" THEN "threw" ELSE "returned"

\* How dispatchAlert ends once every sink task has settled: each task
\* handles its own failure (if/else and try/catch) and the tasks are joined
\* by Promise.allSettled, so the call returns whatever the sinks did.
DispatchOutcome(results) == "returned"

\* ------------------------------------------------------------------- Init
\* Sink w1 has an explicit rate limit, sink w2 an explicit retry cap.
W1Configs == {[enabled |-> TRUE, rateLimitPerMinute |-> r, retryAttempts |-> 1] :
                 r \in 0..MaxRate}
W2Configs == {[enabled |-> TRUE, rateLimitPerMinute |-> defaultRateLimit,
               retryAttempts |-> k] : k \in 0..MaxRetry}
             \cup {[enabled |-> FALSE, rateLimitPerMinute |-> defaultRateLimit,
                    retryAttempts |-> maxRetries]}

\* new AlertSystem(webhooks) with no sink or with the one sink w1.
OneSinkLists == {<<>>} \cup {[w \in {"w1"} |-> c1] : c1 \in W1Configs}

\* new AlertSystem(webhooks) with no sink or with the two sinks w1 and w2.
TwoSinkLists == {<<>>} \cup {[w \in W |-> IF w = "w1" THEN c1 ELSE c2] :
                                c1 \in W1Configs, c2 \in W2Configs}

\* The sink list built by the Sentinel constructor from config.webhookUrl.
SentinelSinkLists ==
    {<<>>, [w \in {"w1"} |-> [enabled |-> TRUE, rateLimitPerMinute |-> loopRateLimit,
                              retryAttempts |-> loopRetryAttempts]]}

CooldownKeys == (AlertTypes \ {"info"}) \X Positions

InitAlertSystem ==
    /\ alertHistory = <<>>
    /\ cooldownMap = [k \in CooldownKeys |-> NA]
    /\ rateLimitMap = [w \in W |-> <<>>]
    /\ webhookStats = [w \in DOMAIN webhooks |-> NoStats]
    /\ callPc = [c \in CallIds |-> "idle"]
    /\ callAlert = [c \in CallIds |-> NoAlert]
    /\ delivery = [c \in CallIds |-> [w \in W |-> NoDelivery]]
    /\ callResult = [c \in CallIds |-> "none"]
    /\ callFailed = [c \in CallIds |-> FALSE]
    /\ alertSerial = 0
    /\ reqLog = <<>>

\* A PositionMonitor that watches nothing and fetches nothing.
NoFetch == [pc |-> "off", watched |-> <<>>, outcome |-> <<>>, addr |-> 0,
            proto |-> 0, buf |-> <<>>, result |-> <<>>]

\* A MarginfiMonitor with no owner query under way.
NoDecode == [pc |-> "off", accounts |-> <<>>, idx |-> 0, parsedAccounts |-> <<>>,
             result |-> <<>>]
NoSlots == [pc |-> "off"]
Idle == [pc |-> "off"]
IdleRisk == [pc |-> "off"]

\* The data-path components that are not in use, all but `used`.
InitDataExcept(used) ==
    /\ IF used = "fetch" THEN TRUE ELSE fetchState = NoFetch
    /\ IF used = "decode" THEN TRUE ELSE decodeState = NoDecode
    /\ IF used = "slots" THEN TRUE ELSE slotState = NoSlots
    /\ IF used = "risk" THEN TRUE ELSE riskState = IdleRisk
    /\ IF used = "health" THEN TRUE ELSE healthState = Idle
    /\ IF used = "garch" THEN TRUE ELSE garchState = Idle
    /\ IF used = "bank" THEN TRUE ELSE bankState = Idle
    /\ IF used = "channel" THEN TRUE ELSE channelState = Idle
    /\ IF used = "scan" THEN TRUE ELSE scanState = Idle
    /\ IF used = "audit" THEN TRUE ELSE auditState = Idle

\* The fields of Sentinel; loopPc "off" is a Sentinel whose loop is not run.
InitSentinelFields(pc) ==
    /\ loopPc = pc
    /\ isShuttingDown = FALSE
    /\ processExited = FALSE
    /\ positions = <<>>
    /\ posIdx = 0
    /\ scored = {}
    /\ cycleStart = 0
    /\ sleepUntil = 0
    /\ cycles = 0
    /\ serviceStatus = [positionMonitor |-> TRUE, riskEngine |-> TRUE,
                        alertSystem |-> TRUE, heartbeat |-> TRUE]
    /\ loopCaught = "none"

\* A Sentinel whose monitors have nothing under way.
InitSentinel(pc) ==
    /\ InitSentinelFields(pc)
    /\ InitDataExcept("none")

Init ==
    /\ now = Epoch
    /\ webhooks \in OneSinkLists
    /\ InitAlertSystem
    /\ InitSentinel("off")

InitDelivery ==
    /\ now = Epoch
    /\ webhooks \in TwoSinkLists
    /\ InitAlertSystem
    /\ InitSentinel("off")

InitHistory ==
    /\ now = Epoch
    /\ webhooks = <<>>
    /\ InitAlertSystem
    /\ InitSentinel("off")

InitLoop ==
    /\ now = Epoch
    /\ webhooks \in SentinelSinkLists
    /\ InitAlertSystem
    /\ InitSentinel("top")

\* ---------------------------------------------------------- AlertSystem
\* The alert object built by send*Alert at time t (id is `alert-${Date.now()}`).
MakeAlert(type, pos, rs, pr, t, serial) ==
    [id |-> t, type |-> type, positionId |-> pos, timestamp |-> t,
     healthFactor |-> rs.healthFactor, collateralRatio |-> rs.collateralRatio,
     distanceToLiquidation |-> rs.distanceToLiquidation,
     probability |-> pr.probability, serial |-> serial]

\* The state of one sink task when dispatchAlert suspends at time t.
StartDelivery(alert, w, started, t) ==
    IF ~(w \in DOMAIN webhooks /\ shouldSendToWebhook(alert, webhooks[w]))
    THEN NoDelivery
    ELSE IF isRateLimited(rateLimitMap[w], EffectiveRateLimit(webhooks[w]), t).limited
    THEN [NoDelivery EXCEPT !.st = "skipped"]
    ELSE IF w \in started
    THEN [st |-> "inflight", attempts |-> 1, retryGap |-> NA]
    ELSE [NoDelivery EXCEPT !.st = "queued"]

\* What the observation log records about a sink for one request.
SinkNote(d) == IF d.st = "none" THEN "na"
               ELSE IF d.st = "skipped" THEN "skipped" ELSE "sent"

\* The observation log once the round of request `serial` at sink w has
\* ended in a terminal failure.
NoteFailure(log, serial, w) ==
    [i \in DOMAIN log |->
        IF log[i].serial = serial /\ log[i].dispatched
        THEN [log[i] EXCEPT !.sinks[w] = "failed"]
        ELSE log[i]]

\* The observation log after a request of a direct caller; the requests of
\* the coordinating loop are observed through the loop's own state.
Logged(request) == IF loopPc = "off" THEN Append(reqLog, request) ELSE reqLog

\* send{Warning,Critical,Prediction,Info}Alert up to the suspension inside
\* dispatchAlert: the cooldown check, the alert, the history push, the
\* filter of eligible sinks, and for each eligible sink the rate-limit
\* check and the first HTTP attempt.
BeginSend(c, type, pos, rs, pr) ==
    LET key == AlertKey(type, pos)
        onCooldown == type # "info"
                      /\ isOnCooldown(cooldownMap, key, CustomCooldown(type), now)
        alert == MakeAlert(type, pos, rs, pr, now, alertSerial + 1)
        eligible == {w \in DOMAIN webhooks : shouldSendToWebhook(alert, webhooks[w])}
        allowed == {w \in eligible :
                      ~isRateLimited(rateLimitMap[w], EffectiveRateLimit(webhooks[w]), now).limited}
        started == StartedAtDispatch(allowed)
        tasks == [w \in W |-> StartDelivery(alert, w, started, now)]
    IN  /\ IF onCooldown
           THEN /\ callResult' = [callResult EXCEPT ![c] = "returned"]
                /\ reqLog' = Logged([type |-> type, pos |-> pos, at |-> now,
                                      dispatched |-> FALSE, serial |-> 0,
                                      sinks |-> [w \in W |-> "na"]])
                /\ UNCHANGED <<alertHistory, rateLimitMap, webhookStats, callPc,
                               callAlert, delivery, callFailed, alertSerial>>
           ELSE /\ alertHistory' = PushHistory(alertHistory, alert)
                /\ alertSerial' = alertSerial + 1
                /\ rateLimitMap' = [w \in W |->
                       IF w \in eligible
                       THEN isRateLimited(rateLimitMap[w],
                                          EffectiveRateLimit(webhooks[w]), now).timestamps
                       ELSE rateLimitMap[w]]
                /\ webhookStats' = [w \in DOMAIN webhookStats |->
                       IF w \notin eligible THEN webhookStats[w]
                       ELSE IF w \in allowed
                       THEN updateWebhookStats(webhookStats, w, [totalSent |-> 1])[w]
                       ELSE updateWebhookStats(webhookStats, w, [rateLimitHits |-> 1])[w]]
                /\ delivery' = [delivery EXCEPT ![c] = tasks]
                /\ callPc' = [callPc EXCEPT ![c] = "awaiting"]
                /\ callAlert' = [callAlert EXCEPT ![c] = alert]
                /\ callResult' = [callResult EXCEPT ![c] = "pending"]
                /\ callFailed' = [callFailed EXCEPT ![c] = FALSE]
                /\ reqLog' = Logged([type |-> type, pos |-> pos, at |-> now,
                                      dispatched |-> TRUE, serial |-> alertSerial + 1,
                                      sinks |-> [w \in W |-> SinkNote(tasks[w])]])
        /\ UNCHANGED <<now, webhooks, cooldownMap>>

\* The risk score handed to the AlertSystem by a direct caller.
DirectRiskScore == [healthFactor |-> 105, collateralRatio |-> 10500,
                    distanceToLiquidation |-> 20]

\* A new call takes the lowest free call slot.
FreeSlot(c) == callPc[c] = "idle" /\ (c = "c2" => callPc["c1"] # "idle")

\* sendCriticalAlert(position, riskScore) called on the AlertSystem.
SendCriticalAlert(c, max) ==
    /\ FreeSlot(c)
    /\ Len(reqLog) < max
    /\ \E pos \in Positions : BeginSend(c, "critical", pos, DirectRiskScore, NoPrediction)
    /\ UNCHANGED <<loopVars, dataVars>>

\* sendInfoAlert(message) called on the AlertSystem.
SendInfoAlert(c, max) ==
    /\ FreeSlot(c)
    /\ Len(reqLog) < max
    /\ BeginSend(c, "info", NoPos, NoRisk, NoPrediction)
    /\ UNCHANGED <<loopVars, dataVars>>

\* The HTTP response (or the timeout) of the attempt in flight at sink w:
\* sendTo{Discord,Telegram,GenericWebhook} turns every error into
\* {success: false}, so sendWithRetry sees a result, never an exception;
\* on a failed result its loop goes straight on to the next attempt.  (The
\* catch branch of sendWithRetry, which holds the backoff delay, cannot be
\* entered: sendSingleWebhook does not throw.)
RespondTo(c, w, ok, noted) ==
    /\ ~processExited
    /\ callPc[c] = "awaiting"
    /\ delivery[c][w].st = "inflight"
    /\ LET d == delivery[c][w]
           failedAt == now
           issuedAt == now
           retry == ~ok /\ d.attempts < maxAttempts(webhooks[w])
           next == IF ok THEN [d EXCEPT !.st = "ok", !.retryGap = NA]
                   ELSE IF retry
                   THEN [d EXCEPT !.attempts = d.attempts + 1,
                                  !.retryGap = issuedAt - failedAt]
                   ELSE [d EXCEPT !.st = "failed", !.retryGap = NA]
       IN  /\ delivery' = [delivery EXCEPT ![c][w] = next]
           /\ callFailed' = [callFailed EXCEPT ![c] = @ \/ (~ok /\ ~retry)]
           /\ webhookStats' =
                  IF ok THEN updateWebhookStats(webhookStats, w, [successCount |-> 1])
                  ELSE IF retry THEN webhookStats
                  ELSE updateWebhookStats(webhookStats, w, [failureCount |-> 1])
           /\ reqLog' = IF noted /\ ~ok /\ ~retry
                        THEN NoteFailure(reqLog, callAlert[c].serial, w)
                        ELSE reqLog
    /\ UNCHANGED <<now, webhooks, alertHistory, cooldownMap, rateLimitMap, callPc,
                   callAlert, callResult, alertSerial, loopVars, dataVars>>

Respond(c, w, ok) == RespondTo(c, w, ok, FALSE)
RespondSuccess(c, w) == Respond(c, w, TRUE)
RespondFailure(c, w) == Respond(c, w, FALSE)

\* The same failed response, with the terminal failure of a round noted in
\* the observation log.
RespondFailureNoted(c, w) == RespondTo(c, w, FALSE, TRUE)

Settled(c) == \A w \in W : delivery[c][w].st \in {"none", "skipped", "ok", "failed"}

\* Promise.allSettled resolves, dispatchAlert returns, and the caller's
\* send*Alert sets the cooldown (sendInfoAlert has none) and returns.
FinishSend(c) ==
    /\ ~processExited
    /\ callPc[c] = "awaiting"
    /\ Settled(c)
    /\ LET a == callAlert[c]
           outcome == DispatchOutcome([w \in W |-> delivery[c][w].st])
       IN  /\ callResult' = [callResult EXCEPT ![c] = outcome]
           /\ cooldownMap' = IF a.type # "info" /\ outcome = "returned"
                             THEN setCooldown(cooldownMap, AlertKey(a.type, a.positionId), now)
                             ELSE cooldownMap
    /\ callPc' = [callPc EXCEPT ![c] = "idle"]
    /\ callAlert' = [callAlert EXCEPT ![c] = NoAlert]
    /\ delivery' = [delivery EXCEPT ![c] = [w \in W |-> NoDelivery]]
    /\ UNCHANGED <<now, webhooks, alertHistory, rateLimitMap, webhookStats,
                   callFailed, alertSerial, reqLog, loopVars, dataVars>>

\* Time passes: the clock is next read `step` ms later.
Advance(step, last) ==
    /\ now + step <= last
    /\ now' = now + step
    /\ UNCHANGED <<alertVars, loopVars, dataVars>>

Tick == Advance(TickMs, Epoch + MaxTicks * TickMs)

\* One sink, one send*Alert call at a time.
Next ==
    \/ SendCriticalAlert("c1", MaxRequests)
    \/ SendInfoAlert("c1", MaxRequests)
    \/ RespondSuccess("c1", "w1")
    \/ RespondFailure("c1", "w1")
    \/ FinishSend("c1")
    \/ Tick

Spec == Init /\ [][Next]_vars

\* One sink, calls that overlap: a caller need not await a call before the next.
NextOverlap ==
    \/ \E c \in CallIds : SendCriticalAlert(c, MaxOverlapRequests)
    \/ \E c \in CallIds : SendInfoAlert(c, MaxOverlapRequests)
    \/ \E c \in CallIds : RespondSuccess(c, "w1")
    \/ \E c \in CallIds : RespondFailure(c, "w1")
    \/ \E c \in CallIds : FinishSend(c)
    \/ Tick

SpecOverlap == Init /\ [][NextOverlap]_vars

\* One sink, one call at a time, the outcome of every round observed.
NextStats ==
    \/ SendCriticalAlert("c1", MaxStatsRequests)
    \/ SendInfoAlert("c1", MaxStatsRequests)
    \/ RespondSuccess("c1", "w1")
    \/ RespondFailureNoted("c1", "w1")
    \/ FinishSend("c1")
    \/ Tick

SpecStats == Init /\ [][NextStats]_vars

\* Two sinks, one send*Alert call at a time.
NextDelivery ==
    \/ SendCriticalAlert("c1", MaxDeliveries)
    \/ SendInfoAlert("c1", MaxDeliveries)
    \/ \E w \in W : RespondSuccess("c1", w)
    \/ \E w \in W : RespondFailure("c1", w)
    \/ FinishSend("c1")
    \/ Tick

SpecDelivery == InitDelivery /\ [][NextDelivery]_vars

\* No sink: alerts are pushed to the history until the cap is passed.
NextHistory ==
    \/ SendInfoAlert("c1", MaxHistoryAlerts)
    \/ FinishSend("c1")

SpecHistory == InitHistory /\ [][NextHistory]_vars

\* ------------------------------------------------- Sentinel.monitorLoop
\* The positions the monitor can fetch: an id and the condition the chain
\* reports for it, from which both the risk score and the prediction follow.
Conditions == {"healthy", "atRisk", "critical"}

\* Positions on which the risk engine fails: "unscorable" makes calculateRisk
\* throw (and with it predictLiquidation, which calls it first),
\* "unpredictable" is scored but makes predictLiquidation throw.
FaultyConditions == {"unscorable", "unpredictable"}
calculateRiskThrows(position) == position.condition = "unscorable"
predictLiquidationThrows(position) == position.condition \in FaultyConditions

HealthFactorOf(condition) ==
    CASE condition = "healthy" -> 150
      [] condition = "atRisk" -> 120
      [] condition = "critical" -> 105
      [] condition = "unpredictable" -> 120

\* calculateRisk(position): the health factor, with the collateral ratio it
\* implies ((collateral / debt) * 100) and a distance to liquidation.
calculateRisk(position) ==
    LET hf == HealthFactorOf(position.condition)
    IN  [healthFactor |-> hf, collateralRatio |-> hf * 100,
         distanceToLiquidation |-> 20]

\* predictLiquidation(position): minutesToLiquidation stays Infinity unless
\* the probability is above the 0.3 gate.
predictLiquidation(position) ==
    LET probability == CASE position.condition = "healthy" -> 20
                         [] position.condition = "atRisk" -> 50
                         [] position.condition = "critical" -> 90
    IN  [probability |-> probability,
         minutesToLiquidation |-> IF probability > predictionGate
                                  THEN 20 ELSE Infinity]

\* What fetchAllPositions returns.
FetchResults ==
    {<<[id |-> "p1", condition |-> c1], [id |-> "p2", condition |-> c2]>> :
        c1 \in Conditions, c2 \in Conditions}

\* What fetchAllPositions returns when the first position is a faulty one.
FaultyFetchResults ==
    {<<[id |-> "p1", condition |-> c1], [id |-> "p2", condition |-> c2]>> :
        c1 \in FaultyConditions, c2 \in {"critical"} \cup FaultyConditions}

\* while (!this.isShuttingDown) { ... await fetchAllPositions(); ...
LoopFetchFrom(results) ==
    /\ UNCHANGED dataVars
    /\ ~processExited
    /\ loopPc = "top"
    /\ ~isShuttingDown
    /\ cycles < MaxCycles
    /\ \E fetched \in results : positions' = fetched
    /\ posIdx' = 1
    /\ scored' = {}
    /\ cycleStart' = now
    /\ cycles' = cycles + 1
    /\ serviceStatus' = [serviceStatus EXCEPT !.positionMonitor = TRUE,
                                              !.riskEngine = TRUE]
    /\ loopPc' = "position"
    /\ UNCHANGED <<now, alertVars, isShuttingDown, processExited, sleepUntil, loopCaught>>

LoopFetch == LoopFetchFrom(FetchResults)
LoopFetchFaulty == LoopFetchFrom(FaultyFetchResults)

\* The while condition fails: "Monitoring loop stopped".
LoopStop ==
    /\ UNCHANGED dataVars
    /\ ~processExited
    /\ loopPc = "top"
    /\ isShuttingDown
    /\ loopPc' = "stopped"
    /\ UNCHANGED <<now, alertVars, isShuttingDown, processExited, positions, scored, posIdx, cycleStart,
                   sleepUntil, cycles, serviceStatus, loopCaught>>

\* Mutant: the catch encloses the for loop, so an exception ends the cycle.
AfterCatchEndsCycle(idx, len) == len + 1

\* Where the for loop stands after the per-position catch: the try/catch is
\* inside the loop body, so the iteration goes on with the next position.
AfterCatch(idx, len) == idx + 1

\* The position's try block is left: on to the next position.  An exception
\* lands in the catch, which marks the risk engine as down.
NextPosition(caught) ==
    /\ posIdx' = IF caught = "none" THEN posIdx + 1
                 ELSE AfterCatch(posIdx, Len(positions))
    /\ loopPc' = "position"
    /\ loopCaught' = IF caught = "none" THEN loopCaught ELSE caught
    /\ serviceStatus' = IF caught = "none" THEN serviceStatus
                        ELSE [serviceStatus EXCEPT !.riskEngine = FALSE]

\* Mutant: the warning threshold is tested first.
AlertTypeForWarningFirst(rs) ==
    IF rs.healthFactor < liquidationWarningThreshold THEN "warning"
    ELSE IF rs.healthFactor < criticalHealthThreshold THEN "critical"
    ELSE "none"

\* if (hf < criticalHealthThreshold) sendCriticalAlert
\* else if (hf < liquidationWarningThreshold) sendWarningAlert.
AlertTypeFor(rs) ==
    IF rs.healthFactor < criticalHealthThreshold THEN "critical"
    ELSE IF rs.healthFactor < liquidationWarningThreshold THEN "warning"
    ELSE "none"

\* for (const position of positions): calculateRisk, then the critical or
\* the warning alert, up to the suspension inside the alert call.
LoopEvaluate ==
    /\ UNCHANGED dataVars
    /\ ~processExited
    /\ loopPc = "position"
    /\ posIdx <= Len(positions)
    /\ ~isShuttingDown
    /\ scored' = scored \cup {positions[posIdx].id}
    /\ LET position == positions[posIdx]
           rs == calculateRisk(position)
       IN  IF calculateRiskThrows(position)
           THEN /\ NextPosition("score")
                /\ UNCHANGED <<now, alertVars>>
           ELSE /\ serviceStatus' = [serviceStatus EXCEPT !.alertSystem = TRUE]
                /\ IF AlertTypeFor(rs) = "none"
                   THEN UNCHANGED <<now, alertVars>>
                   ELSE BeginSend("c1", AlertTypeFor(rs), position.id, rs, NoPrediction)
                /\ loopPc' = IF callPc'["c1"] = "awaiting" THEN "alertWait"
                             ELSE "predict"
                /\ UNCHANGED <<posIdx, loopCaught>>
    /\ UNCHANGED <<isShuttingDown, processExited, positions, cycleStart, sleepUntil, cycles>>

\* The awaited critical or warning alert call has ended.
LoopAlertDone ==
    /\ UNCHANGED dataVars
    /\ ~processExited
    /\ loopPc = "alertWait"
    /\ callPc["c1"] = "idle"
    /\ IF callResult["c1"] = "threw"
       THEN NextPosition("alert")
       ELSE /\ loopPc' = "predict"
            /\ UNCHANGED <<posIdx, loopCaught, serviceStatus>>
    /\ UNCHANGED <<now, alertVars, isShuttingDown, processExited, positions, scored, cycleStart,
                   sleepUntil, cycles>>

\* predictLiquidation, then the prediction alert if liquidation is expected
\* within the horizon, up to the suspension inside the alert call.
LoopPredict ==
    /\ UNCHANGED dataVars
    /\ ~processExited
    /\ loopPc = "predict"
    /\ LET position == positions[posIdx]
           pr == predictLiquidation(position)
       IN IF predictLiquidationThrows(position)
          THEN /\ NextPosition("predict")
               /\ UNCHANGED <<now, alertVars>>
          ELSE IF pr.minutesToLiquidation < predictionHorizonMinutes
          THEN /\ BeginSend("c1", "prediction", position.id, NoRisk, pr)
               /\ IF callPc'["c1"] = "awaiting"
                  THEN /\ loopPc' = "predictWait"
                       /\ UNCHANGED <<posIdx, loopCaught, serviceStatus>>
                  ELSE NextPosition("none")
          ELSE /\ NextPosition("none")
               /\ UNCHANGED <<now, alertVars>>
    /\ UNCHANGED <<isShuttingDown, processExited, positions, scored, cycleStart, sleepUntil, cycles>>

\* The awaited prediction alert call has ended.
LoopPredictDone ==
    /\ UNCHANGED dataVars
    /\ ~processExited
    /\ loopPc = "predictWait"
    /\ callPc["c1"] = "idle"
    /\ NextPosition(IF callResult["c1"] = "threw" THEN "alert" ELSE "none")
    /\ UNCHANGED <<now, alertVars, isShuttingDown, processExited, positions, scored, cycleStart,
                   sleepUntil, cycles>>

\* The for loop ends (no position left, or the shutdown flag breaks it):
\* sleep(Math.max(1000, 10000 - cycleDuration)).
LoopEndCycle ==
    /\ UNCHANGED dataVars
    /\ ~processExited
    /\ loopPc = "position"
    /\ posIdx > Len(positions) \/ isShuttingDown
    /\ sleepUntil' = now + Max(minSleepMs, cycleMs - (now - cycleStart))
    /\ loopPc' = "sleeping"
    /\ UNCHANGED <<now, alertVars, isShuttingDown, processExited, positions, scored, posIdx, cycleStart,
                   cycles, serviceStatus, loopCaught>>

\* The sleep timer fires.
LoopWake ==
    /\ UNCHANGED dataVars
    /\ ~processExited
    /\ loopPc = "sleeping"
    /\ now >= sleepUntil
    /\ loopPc' = "top"
    /\ UNCHANGED <<now, alertVars, isShuttingDown, processExited, positions, scored, posIdx, cycleStart,
                   sleepUntil, cycles, serviceStatus, loopCaught>>

\* SIGTERM or SIGINT: the shutdown handler sets the flag.
Shutdown ==
    /\ UNCHANGED dataVars
    /\ ~isShuttingDown
    /\ ~processExited
    /\ loopPc # "stopped"
    /\ isShuttingDown' = TRUE
    /\ UNCHANGED <<now, alertVars, loopPc, processExited, positions, scored, posIdx, cycleStart,
                   sleepUntil, cycles, serviceStatus, loopCaught>>

\* The shutdown handler goes on: the HTTP server is closed, the heartbeat is
\* stopped and process.exit(0) is called (or the 30 s timer forces
\* process.exit(1)); nothing in it waits for monitorLoop.
ProcessExit ==
    /\ UNCHANGED dataVars
    /\ isShuttingDown
    /\ ~processExited
    /\ processExited' = TRUE
    /\ UNCHANGED <<now, alertVars, loopPc, isShuttingDown, positions, scored, posIdx,
                   cycleStart, sleepUntil, cycles, serviceStatus, loopCaught>>

\* Time passes while the loop waits: for its sinks or for its sleep timer.
LoopTick ==
    /\ ~processExited
    /\ loopPc \in {"alertWait", "predictWait", "sleeping"}
    /\ Advance(TickMs, Epoch + MaxLoopTicks * TickMs)

\* The coordinating loop with the sink the Sentinel constructor configures.
NextLoop ==
    \/ LoopFetch
    \/ LoopStop
    \/ LoopEvaluate
    \/ LoopAlertDone
    \/ LoopPredict
    \/ LoopPredictDone
    \/ LoopEndCycle
    \/ LoopWake
    \/ Shutdown
    \/ RespondSuccess("c1", "w1")
    \/ RespondFailure("c1", "w1")
    \/ FinishSend("c1")
    \/ LoopTick

SpecLoop == InitLoop /\ [][NextLoop]_vars

\* The coordinating loop and the whole shutdown handler.
NextShutdown ==
    \/ LoopFetch
    \/ LoopStop
    \/ LoopEvaluate
    \/ LoopAlertDone
    \/ LoopPredict
    \/ LoopPredictDone
    \/ LoopEndCycle
    \/ LoopWake
    \/ Shutdown
    \/ ProcessExit
    \/ RespondSuccess("c1", "w1")
    \/ RespondFailure("c1", "w1")
    \/ FinishSend("c1")
    \/ LoopTick

SpecShutdown == InitLoop /\ [][NextShutdown]_vars

\* The coordinating loop over positions on which the risk engine fails.
NextFaults ==
    \/ LoopFetchFaulty
    \/ LoopStop
    \/ LoopEvaluate
    \/ LoopAlertDone
    \/ LoopPredict
    \/ LoopPredictDone
    \/ LoopEndCycle
    \/ LoopWake
    \/ Shutdown
    \/ RespondSuccess("c1", "w1")
    \/ RespondFailure("c1", "w1")
    \/ FinishSend("c1")
    \/ LoopTick

SpecFaults == InitLoop /\ [][NextFaults]_vars

\* Mutant: the catch of the cycle is outside the while loop.
AfterCycleErrorStops == "stopped"

\* Where the loop stands after the catch of a cycle: in its sleep, inside the
\* while loop.
AfterCycleError == "sleeping"

\* The try block of a cycle throws outside the per-position try (the fetch
\* rejects): catch, positionMonitor is marked down, sleep(5000).
LoopFetchFails ==
    /\ UNCHANGED dataVars
    /\ ~processExited
    /\ loopPc = "top"
    /\ ~isShuttingDown
    /\ cycles < MaxCycles
    /\ cycleStart' = now
    /\ cycles' = cycles + 1
    /\ serviceStatus' = [serviceStatus EXCEPT !.positionMonitor = FALSE]
    /\ loopCaught' = "fetch"
    /\ sleepUntil' = now + errorSleepMs
    /\ loopPc' = AfterCycleError
    /\ UNCHANGED <<now, alertVars, isShuttingDown, processExited, positions, posIdx, scored>>

\* What fetchAllPositions returns in the cycles followed to their next one.
LiveFetchResults ==
    {<<[id |-> "p1", condition |-> c1], [id |-> "p2", condition |-> "critical"]>> :
        c1 \in {"healthy", "unscorable", "unpredictable"}}

LoopFetchLive == LoopFetchFrom(LiveFetchResults)

\* The sleep timer runs: time passes until it is due.
SleepTick ==
    /\ ~processExited
    /\ loopPc = "sleeping"
    /\ now < sleepUntil
    /\ now' = now + TickMs
    /\ UNCHANGED <<alertVars, loopVars, dataVars>>

\* The steps of the loop itself.
LoopStep ==
    \/ LoopFetchLive
    \/ LoopFetchFails
    \/ LoopStop
    \/ LoopEvaluate
    \/ LoopAlertDone
    \/ LoopPredict
    \/ LoopPredictDone
    \/ LoopEndCycle
    \/ LoopWake

\* The answers of the sink (axios ends every request: response, error or
\* timeout) and the settling of the dispatch.
SinkStep ==
    \/ RespondSuccess("c1", "w1")
    \/ RespondFailure("c1", "w1")
    \/ FinishSend("c1")

NextLive ==
    \/ LoopStep
    \/ SinkStep
    \/ SleepTick
    \/ Shutdown

\* The event loop runs what is runnable, requests end and timers fire;
\* nothing obliges a shutdown signal to come.
SpecLive ==
    /\ InitLoop
    /\ [][NextLive]_vars
    /\ WF_vars(LoopStep)
    /\ WF_vars(SinkStep)
    /\ WF_vars(SleepTick)

\* ------------------------------------- RiskEngine.calculateGarchVolatility
\* Variances are in units of 1e-8, log-returns and volatilities in units of
\* 1e-4, the model's alpha and beta in hundredths.
RECURSIVE SqrtBetween(_, _, _)
SqrtBetween(x, lo, hi) ==
    IF lo >= hi THEN lo
    ELSE LET mid == (lo + hi + 1) \div 2
         IN  IF mid * mid <= x THEN SqrtBetween(x, mid, hi)
             ELSE SqrtBetween(x, lo, mid - 1)

\* Math.sqrt, rounded down.
Sqrt(x) == SqrtBetween(x, 0, 46340)

\* Math.log(prices[i] / prices[i - 1]) over the two price levels fed.
LogReturn(previous, price) ==
    IF price = previous THEN 0
    ELSE IF price > previous THEN 488 ELSE 0 - 488

\* The returns calculateAdvancedVolatility derives from the price history.
ReturnsOf(prices) ==
    [i \in 1..(Len(prices) - 1) |-> LogReturn(prices[i], prices[i + 1])]

RECURSIVE SumSquares(_)
SumSquares(returns) ==
    IF returns = <<>> THEN 0
    ELSE Head(returns) * Head(returns) + SumSquares(Tail(returns))

\* The model a mint gets on its first call.
DefaultVolatilityModel ==
    [alpha |-> 10, beta |-> 85, omega |-> 1000, longTermVariance |-> 100000]

\* One pass of the loop without its omega term.
garchStepWithoutOmega(model, conditionalVariance, prevReturn) ==
    (model.alpha * prevReturn * prevReturn) \div 100
        + (model.beta * conditionalVariance) \div 100

\* conditionalVariance = omega + alpha * prevReturn^2 + beta * conditionalVariance
garchStep(model, conditionalVariance, prevReturn) ==
    model.omega + (model.alpha * prevReturn * prevReturn) \div 100
        + (model.beta * conditionalVariance) \div 100

\* for (let i = 1; i < returns.length; i++) { prevReturn = returns[i - 1]; ... }
RECURSIVE garchLoop(_, _, _, _)
garchLoop(model, conditionalVariance, returns, i) ==
    IF i >= Len(returns) THEN conditionalVariance
    ELSE garchLoop(model, garchStep(model, conditionalVariance, returns[i]),
                   returns, i + 1)

\* Math.sqrt(conditionalVariance * 365 * 24)
Annualised(variance) == Sqrt(variance * periodsPerYear)

\* calculateGarchVolatility(mintAddress, returns): the volatility returned
\* and the model left in volatilityModels.
calculateGarchVolatility(stored, returns) ==
    IF Len(returns) < garchMinReturns
      THEN [volatility |-> Sqrt(SumSquares(returns) \div Len(returns)),
            stored |-> stored]
      ELSE LET model == IF stored.set THEN stored.model ELSE DefaultVolatilityModel
               conditionalVariance ==
                   garchLoop(model, model.longTermVariance, returns, 1)
           IN  [volatility |-> Annualised(conditionalVariance),
                stored |-> [set |-> TRUE,
                            model |-> [model EXCEPT
                                         !.longTermVariance = conditionalVariance]]]

\* The price levels fed to addPriceDataPoint.
GarchPrices == {10000, 10500}

\* The number of price changes in a history.
Shocks(prices) ==
    Cardinality({i \in 1..(Len(prices) - 1) : prices[i] # prices[i + 1]})

InitGarch ==
    /\ now = Epoch
    /\ webhooks = <<>>
    /\ InitAlertSystem
    /\ InitSentinelFields("off")
    /\ InitDataExcept("garch")
    /\ garchState = [pc |-> "on", prices |-> <<>>,
                     stored |-> [set |-> FALSE, model |-> DefaultVolatilityModel],
                     calls |-> 0, zeroCalls |-> 0, volatility |-> 0]

\* addPriceDataPoint(mint, price): push, and shift once past the cap.
addPriceDataPoint(price) ==
    /\ garchState.pc = "on"
    /\ Len(garchState.prices) < MaxPrices
    /\ Shocks(Append(garchState.prices, price)) <= MaxShocks
    /\ LET pushed == Append(garchState.prices, price)
       IN  garchState' =
             [garchState EXCEPT
                !.prices = IF Len(pushed) > priceHistoryCap THEN Tail(pushed)
                           ELSE pushed]
    /\ UNCHANGED allButGarch

\* calculateAdvancedVolatility reaches calculateGarchVolatility once the
\* history holds ten prices.
GarchCall ==
    /\ garchState.pc = "on"
    /\ Len(garchState.prices) >= volatilityMinPrices
    /\ garchState.calls < MaxGarchCalls
    /\ LET returns == ReturnsOf(garchState.prices)
           result == calculateGarchVolatility(garchState.stored, returns)
       IN  garchState' =
             [garchState EXCEPT
                !.stored = result.stored,
                !.volatility = result.volatility,
                !.calls = @ + 1,
                !.zeroCalls =
                    IF Len(returns) < garchMinReturns THEN @
                    ELSE IF \A i \in 1..Len(returns) : returns[i] = 0 THEN @ + 1
                    ELSE 0]
    /\ UNCHANGED allButGarch

NextGarch ==
    \/ \E price \in GarchPrices : addPriceDataPoint(price)
    \/ GarchCall

SpecGarch == InitGarch /\ [][NextGarch]_vars

\* The level sqrt(omega / (1 - alpha - beta) * periods-per-year).
LongRunVolatility ==
    Annualised((DefaultVolatilityModel.omega * 100)
        \div (100 - DefaultVolatilityModel.alpha - DefaultVolatilityModel.beta))

\* The level sqrt(omega / (1 - beta) * periods-per-year).
ZeroReturnVolatility ==
    Annualised((DefaultVolatilityModel.omega * 100)
        \div (100 - DefaultVolatilityModel.beta))

\* ------------------------------------------------ MarginfiMonitor.bankCache
BankAddresses == {"bankA", "bankB"}

NoBank == [cached |-> FALSE, assetShareValue |-> 0, liabilityShareValue |-> 0,
           lastUpdate |-> 0]

\* What getAccountInfo can return for a bank address: nothing, bytes that do
\* not parse, or the bank as of one of its on-chain updates.
BankAccountInfos ==
    {[kind |-> k, version |-> 0] : k \in {"absent", "garbled"}}
        \cup {[kind |-> "bank", version |-> v] : v \in 1..MaxBankVersions}

\* parseBankData(data): the record of the bank, or null (NoBank).
parseBankData(info) ==
    IF info.kind = "bank"
      THEN [cached |-> TRUE, assetShareValue |-> 100 + info.version,
            liabilityShareValue |-> 100 + 2 * info.version,
            lastUpdate |-> info.version]
      ELSE NoBank

\* this.bankCache.set(key, bankData), guarded by if (bankData).
SetIfParsed(cache, address, bankData) ==
    IF bankData.cached THEN [cache EXCEPT ![address] = bankData] ELSE cache

InitBank ==
    /\ now = Epoch
    /\ webhooks = <<>>
    /\ InitAlertSystem
    /\ InitSentinelFields("off")
    /\ InitDataExcept("bank")
    /\ \E chain \in [BankAddresses -> BankAccountInfos] :
         bankState = [pc |-> "on", chain |-> chain,
                      cache |-> [a \in BankAddresses |-> NoBank],
                      subscribed |-> {}, notified |-> {}, inflight |-> {},
                      lastOp |-> "none"]

\* The bank account changes on chain; a subscribed address gets a
\* notification carrying the new data.
BankChangesOnChain(address) ==
    /\ bankState.pc = "on"
    /\ bankState.chain[address].kind = "bank"
    /\ bankState.chain[address].version < MaxBankVersions
    /\ LET info == [kind |-> "bank", version |-> bankState.chain[address].version + 1]
       IN  bankState' =
             [bankState EXCEPT
                !.chain[address] = info,
                !.notified = IF address \in bankState.subscribed
                             THEN @ \cup {[address |-> address, info |-> info]}
                             ELSE @,
                !.lastOp = "chain"]
    /\ UNCHANGED allButBank

\* getBankData(bankAddress) on a cached address: returns the entry.
GetBankDataHit(address) ==
    /\ bankState.pc = "on"
    /\ bankState.cache[address].cached
    /\ bankState.lastOp # "getBankData"
    /\ bankState' = [bankState EXCEPT !.lastOp = "getBankData"]
    /\ UNCHANGED allButBank

\* getBankData / refreshBankData up to await getAccountInfo(bankAddress).
BankFetchStart(op, address) ==
    /\ bankState.pc = "on"
    /\ op = "getBankData" => ~bankState.cache[address].cached
    /\ Cardinality(bankState.inflight) < MaxBankInflight
    /\ bankState' =
         [bankState EXCEPT
            !.inflight = @ \cup {[op |-> op, address |-> address,
                                  info |-> bankState.chain[address]]},
            !.lastOp = "request"]
    /\ UNCHANGED allButBank

\* getAccountInfo has resolved: parse and, when a bank came out, cache it.
BankFetchDone(request) ==
    /\ bankState.pc = "on"
    /\ request \in bankState.inflight
    /\ bankState' =
         [bankState EXCEPT
            !.inflight = @ \ {request},
            !.cache = IF request.info.kind = "absent" THEN @
                      ELSE SetIfParsed(@, request.address, parseBankData(request.info)),
            !.lastOp = request.op]
    /\ UNCHANGED allButBank

\* subscribeToBank(bankAddress, callback): registers the listener.
subscribeToBank(address) ==
    /\ bankState.pc = "on"
    /\ address \notin bankState.subscribed
    /\ bankState' = [bankState EXCEPT !.subscribed = @ \cup {address},
                                      !.lastOp = "subscribe"]
    /\ UNCHANGED allButBank

\* The listener subscribeToBank registered runs on an account change.
BankListener(notification) ==
    /\ bankState.pc = "on"
    /\ notification \in bankState.notified
    /\ bankState' =
         [bankState EXCEPT
            !.notified = @ \ {notification},
            !.cache = SetIfParsed(@, notification.address,
                                  parseBankData(notification.info)),
            !.lastOp = "subscribeToBank"]
    /\ UNCHANGED allButBank

NextBank ==
    \/ \E address \in BankAddresses : BankChangesOnChain(address)
    \/ \E address \in BankAddresses : GetBankDataHit(address)
    \/ \E address \in BankAddresses :
         \E op \in {"getBankData", "refreshBankData"} : BankFetchStart(op, address)
    \/ \E request \in bankState.inflight : BankFetchDone(request)
    \/ \E address \in BankAddresses : subscribeToBank(address)
    \/ \E notification \in bankState.notified : BankListener(notification)

SpecBank == InitBank /\ [][NextBank]_vars

\* ------------------------------------ PositionMonitor subscription channel
\* The WebSocket revision of PositionMonitor (startWebSocketMonitoring,
\* stopWebSocketMonitoring, onPositionChange) is used by the front end only;
\* its channel is modelled from the specification's state machine.
ChannelAddresses == {"owner1", "owner2"}

\* The reconnect policies configured: base delay, cap, attempt count.
ChannelConfigs ==
    {[baseDelayMs |-> b, maxDelayMs |-> m, maxAttempts |-> n] :
        b \in {500, 1000}, m \in {2000, 3000}, n \in {MaxReconnects - 1, MaxReconnects}}

\* The delay doubles with every attempt, without the cap.
backoffDelayUncapped(config, attempt) == config.baseDelayMs * Pow2(attempt)

\* The delay before reconnect attempt number attempt + 1: the base delay
\* doubling per attempt, capped at the maximum.
backoffDelay(config, attempt) ==
    Min(config.baseDelayMs * Pow2(attempt), config.maxDelayMs)

InitChannel ==
    /\ now = Epoch
    /\ webhooks = <<>>
    /\ InitAlertSystem
    /\ InitSentinelFields("off")
    /\ InitDataExcept("channel")
    /\ \E config \in ChannelConfigs :
         channelState = [pc |-> "Disconnected", config |-> config,
                         watched |-> {}, subscribed |-> {},
                         attempts |-> 0, delays |-> <<>>, attempted |-> 0,
                         closures |-> 0]

\* addWatchAddress(address): subscribed at once on a connected channel.
ChannelWatch(address) ==
    /\ channelState.pc \notin {"off", "Stopped"}
    /\ address \notin channelState.watched
    /\ channelState' =
         [channelState EXCEPT
            !.watched = @ \cup {address},
            !.subscribed = IF channelState.pc = "Connected" THEN @ \cup {address}
                           ELSE @]
    /\ UNCHANGED allButChannel

\* start(): also the coordinator's retry after the channel gave up.
ChannelStart ==
    /\ channelState.pc \in {"Disconnected", "Failed"}
    /\ channelState' = [channelState EXCEPT !.pc = "Connecting", !.attempts = 0,
                                            !.delays = <<>>, !.attempted = 0]
    /\ UNCHANGED allButChannel

\* The transport opened: every watched address is (re)subscribed.
ChannelOpen ==
    /\ channelState.pc = "Connecting"
    /\ channelState' = [channelState EXCEPT !.pc = "Connected",
                                            !.subscribed = channelState.watched,
                                            !.attempts = 0, !.delays = <<>>,
                                            !.attempted = 0]
    /\ UNCHANGED allButChannel

\* The transport closed or failed: back off and retry while attempts are
\* left, otherwise give up without leaving the process.
ChannelClose ==
    /\ channelState.pc \in {"Connecting", "Connected"}
    /\ channelState.closures < MaxClosures
    /\ IF channelState.attempts < channelState.config.maxAttempts
         THEN channelState' =
                [channelState EXCEPT
                   !.pc = "Reconnecting", !.subscribed = {},
                   !.attempts = @ + 1,
                   !.delays = Append(@, backoffDelay(channelState.config,
                                                     channelState.attempts)),
                   !.closures = @ + 1]
         ELSE channelState' =
                [channelState EXCEPT !.pc = "Failed", !.subscribed = {},
                                     !.closures = @ + 1]
    /\ UNCHANGED allButChannel

\* The backoff delay has elapsed: the reconnect attempt is made.
ChannelReconnect ==
    /\ channelState.pc = "Reconnecting"
    /\ channelState' = [channelState EXCEPT !.pc = "Connecting",
                                            !.attempted = @ + 1]
    /\ UNCHANGED allButChannel

\* stop(): unsubscribe every address and close the channel.
ChannelStop ==
    /\ channelState.pc \notin {"off", "Stopped"}
    /\ channelState' = [channelState EXCEPT !.pc = "Stopped", !.subscribed = {}]
    /\ UNCHANGED allButChannel

NextChannel ==
    \/ \E address \in ChannelAddresses : ChannelWatch(address)
    \/ ChannelStart
    \/ ChannelOpen
    \/ ChannelClose
    \/ ChannelReconnect
    \/ ChannelStop

SpecChannel == InitChannel /\ [][NextChannel]_vars

\* ------------------------------------------ PositionMonitor change events
\* The diff of a scan against the stored records belongs to the WebSocket
\* revision of PositionMonitor and is modelled from the specification; the
\* bulk fetch is fetchAllPositions as the monitoring loop calls it.
ScanIds == {"pos1", "pos2"}
ScanHealthFactors == {120, 150}

\* An account on chain: not yet created, live with a health factor, or gone.
NoAccount == [life |-> "absent", healthFactor |-> 0]
GoneAccount == [life |-> "gone", healthFactor |-> 0]
NoRecord == [known |-> FALSE, healthFactor |-> 0]

\* The change a scan reports for one position: none, or one event.
changeTypeOf(prior, account) ==
    IF account.life = "live"
      THEN IF ~prior.known THEN "created"
           ELSE IF prior.healthFactor # account.healthFactor THEN "updated"
           ELSE "none"
      ELSE IF prior.known THEN "deleted" ELSE "none"

\* The record kept for the next diff.
recordOf(account) ==
    IF account.life = "live"
      THEN [known |-> TRUE, healthFactor |-> account.healthFactor]
      ELSE NoRecord

RECURSIVE EventsOf(_, _, _)
EventsOf(ids, stored, chain) ==
    IF ids = {} THEN <<>>
    ELSE LET id == CHOOSE i \in ids : TRUE
             change == changeTypeOf(stored[id], chain[id])
             rest == EventsOf(ids \ {id}, stored, chain)
         IN  IF change = "none" THEN rest
             ELSE <<[id |-> id, changeType |-> change]>> \o rest

\* The positions one bulk fetch merges into the previous result.
positionsMerged(previous, fetched) == previous \cup fetched

\* this.positions = positions: the fetched list replaces the previous one.
positionsAfterFetch(previous, fetched) == fetched

InitScan ==
    /\ now = Epoch
    /\ webhooks = <<>>
    /\ InitAlertSystem
    /\ InitSentinelFields("off")
    /\ InitDataExcept("scan")
    /\ scanState = [pc |-> "on",
                    chain |-> [id \in ScanIds |-> NoAccount],
                    changes |-> 0,
                    stored |-> [id \in ScanIds |-> NoRecord],
                    events |-> <<>>,
                    fetching |-> FALSE, accounts |-> {}, goneAtFetch |-> {},
                    positions |-> {}, goneAtResult |-> {}]

\* A position account is created on chain.
AccountCreated(id, healthFactor) ==
    /\ scanState.pc = "on"
    /\ scanState.chain[id].life = "absent"
    /\ scanState' = [scanState EXCEPT
                       !.chain[id] = [life |-> "live", healthFactor |-> healthFactor]]
    /\ UNCHANGED allButScan

\* A live account's health factor changes.
AccountChanged(id, healthFactor) ==
    /\ scanState.pc = "on"
    /\ scanState.chain[id].life = "live"
    /\ scanState.chain[id].healthFactor # healthFactor
    /\ scanState.changes < MaxAccountChanges
    /\ scanState' = [scanState EXCEPT
                       !.chain[id].healthFactor = healthFactor,
                       !.changes = @ + 1]
    /\ UNCHANGED allButScan

\* A live account disappears.
AccountDisappears(id) ==
    /\ scanState.pc = "on"
    /\ scanState.chain[id].life = "live"
    /\ scanState' = [scanState EXCEPT !.chain[id] = GoneAccount]
    /\ UNCHANGED allButScan

\* An account notification: decode, diff against the stored records, emit
\* one change event per position that changed, keep the new records.
ScanNotification ==
    /\ scanState.pc = "on"
    /\ EventsOf(ScanIds, scanState.stored, scanState.chain) # <<>>
    /\ scanState' =
         [scanState EXCEPT
            !.events = @ \o EventsOf(ScanIds, scanState.stored, scanState.chain),
            !.stored = [id \in ScanIds |-> recordOf(scanState.chain[id])]]
    /\ UNCHANGED allButScan

\* fetchAllPositions() up to the answer of getProgramAccounts.
BulkFetchStart ==
    /\ scanState.pc = "on"
    /\ ~scanState.fetching
    /\ scanState' =
         [scanState EXCEPT
            !.fetching = TRUE,
            !.accounts = {id \in ScanIds : scanState.chain[id].life = "live"},
            !.goneAtFetch = {id \in ScanIds : scanState.chain[id].life = "gone"}]
    /\ UNCHANGED allButScan

\* The fetch returns one position per account found.
BulkFetchDone ==
    /\ scanState.pc = "on"
    /\ scanState.fetching
    /\ scanState' =
         [scanState EXCEPT
            !.fetching = FALSE,
            !.positions = positionsAfterFetch(@, scanState.accounts),
            !.goneAtResult = scanState.goneAtFetch]
    /\ UNCHANGED allButScan

NextScan ==
    \/ \E id \in ScanIds : \E hf \in ScanHealthFactors : AccountCreated(id, hf)
    \/ \E id \in ScanIds : \E hf \in ScanHealthFactors : AccountChanged(id, hf)
    \/ \E id \in ScanIds : AccountDisappears(id)
    \/ ScanNotification
    \/ BulkFetchStart
    \/ BulkFetchDone

SpecScan == InitScan /\ [][NextScan]_vars

\* The number of events of one kind emitted for a position.
EventCount(id, changeType) ==
    Cardinality({i \in 1..Len(scanState.events) :
                   /\ scanState.events[i].id = id
                   /\ scanState.events[i].changeType = changeType})

\* ------------------------------------------- SolprismRiskGuard in the loop
\* The monitoring loop that wraps every alert in a commit before it and a
\* reveal after it, and the guard's pendingCommitments. A commitment's
\* address is the nonce it was derived from.
NoCommitment == 0

\* What one position asks of the loop: an alert kind, then a prediction.
AuditDecisions ==
    {<<kind, prediction>> :
        kind \in {"critical_alert", "warning_alert", "none"},
        prediction \in {"liquidation_prediction", "none"}}

RECURSIVE Flatten(_)
Flatten(decisions) ==
    IF decisions = <<>> THEN <<>> ELSE Head(decisions) \o Flatten(Tail(decisions))

\* The alerts a loop without the guard has dispatched once it has reached
\* the first n decisions of its work.
RECURSIVE AlertsOfCore(_, _)
AlertsOfCore(work, n) ==
    IF n = 0 THEN <<>>
    ELSE LET before == AlertsOfCore(work, n - 1)
         IN  IF work[n] = "none" THEN before
             ELSE Append(before, [decision |-> n, actionType |-> work[n]])

InitAudit ==
    /\ now = Epoch
    /\ webhooks = <<>>
    /\ InitAlertSystem
    /\ InitSentinelFields("off")
    /\ InitDataExcept("audit")
    /\ \E decisions \in [1..MaxAuditPositions -> AuditDecisions] :
       \E enabled \in BOOLEAN : \E autoReveal \in BOOLEAN :
         auditState = [pc |-> "decide", enabled |-> enabled,
                       autoReveal |-> autoReveal,
                       work |-> Flatten(decisions), reached |-> 0,
                       dispatched |-> <<>>,
                       nonce |-> 1, commitRecord |-> NoCommitment,
                       pendingCommitments |-> {}, inflight |-> {},
                       revealed |-> [address \in 1..(2 * MaxAuditPositions) |-> 0],
                       allPc |-> "idle", allVisited |-> NoCommitment, passes |-> 0]

\* isActive()
isActive == auditState.enabled

\* The alert of the decision reached is handed to the alert system.
Dispatched(state) ==
    Append(state.dispatched,
           [decision |-> state.reached, actionType |-> state.work[state.reached]])

\* revealRiskDecision(address) up to await sendRevealTransaction: null when
\* inactive or not pending, otherwise the reveal transaction is sent.
RevealSends(address) == isActive /\ address \in auditState.pendingCommitments

\* The loop reaches a decision: nothing to do, or commit*Alert is called,
\* which returns null at once when the guard is inactive.
AuditDecide ==
    /\ auditState.pc = "decide"
    /\ auditState.reached < Len(auditState.work)
    /\ LET n == auditState.reached + 1
           reachedState == [auditState EXCEPT !.reached = n,
                                              !.commitRecord = NoCommitment]
       IN  auditState' =
             IF auditState.work[n] = "none" THEN reachedState
             ELSE IF isActive THEN [reachedState EXCEPT !.pc = "commit"]
             ELSE [reachedState EXCEPT !.pc = "alert",
                                       !.dispatched = Dispatched(reachedState)]
    /\ UNCHANGED allButAudit

\* sendCommitTransaction resolved: the record is stored as pending and the
\* alert is sent.
CommitSucceeds ==
    /\ auditState.pc = "commit"
    /\ auditState' =
         [auditState EXCEPT
            !.pc = "alert",
            !.commitRecord = auditState.nonce,
            !.pendingCommitments = @ \cup {auditState.nonce},
            !.nonce = @ + 1,
            !.dispatched = Dispatched(auditState)]
    /\ UNCHANGED allButAudit

\* sendCommitTransaction rejected: caught, null returned, the alert is sent.
CommitFails ==
    /\ auditState.pc = "commit"
    /\ auditState' = [auditState EXCEPT !.pc = "alert",
                                        !.dispatched = Dispatched(auditState)]
    /\ UNCHANGED allButAudit

\* The alert system returned: reveal when a record came back and autoReveal
\* is set, then go on to the next decision.
AuditAlertDone ==
    /\ auditState.pc = "alert"
    /\ auditState' =
         IF auditState.commitRecord # NoCommitment /\ auditState.autoReveal
              /\ RevealSends(auditState.commitRecord)
           THEN [auditState EXCEPT
                   !.pc = "reveal",
                   !.inflight = @ \cup {[by |-> "loop",
                                         address |-> auditState.commitRecord]}]
           ELSE [auditState EXCEPT !.pc = "decide"]
    /\ UNCHANGED allButAudit

\* revealAllPending() is called.
RevealAllStart ==
    /\ auditState.pc # "off"
    /\ auditState.allPc = "idle"
    /\ auditState.passes < MaxRevealPasses
    /\ auditState' = [auditState EXCEPT !.allPc = "iterating",
                                        !.allVisited = NoCommitment,
                                        !.passes = @ + 1]
    /\ UNCHANGED allButAudit

\* The next entry of the live map iteration, or the end of the pass.
RevealAllStep ==
    /\ auditState.allPc = "iterating"
    /\ LET rest == {address \in auditState.pendingCommitments :
                      address > auditState.allVisited}
       IN  auditState' =
             IF rest = {} THEN [auditState EXCEPT !.allPc = "idle"]
             ELSE LET address == CHOOSE a \in rest : \A b \in rest : a <= b
                  IN  IF RevealSends(address)
                        THEN [auditState EXCEPT
                                !.allPc = "awaiting", !.allVisited = address,
                                !.inflight = @ \cup {[by |-> "all",
                                                      address |-> address]}]
                        ELSE [auditState EXCEPT !.allVisited = address]
    /\ UNCHANGED allButAudit

\* sendRevealTransaction settled: on success the record is marked revealed
\* and removed from the pending map; on failure null is returned.
RevealSettles(request, ok) ==
    /\ request \in auditState.inflight
    /\ LET settled ==
             [auditState EXCEPT
                !.inflight = @ \ {request},
                !.revealed[request.address] = IF ok THEN @ + 1 ELSE @,
                !.pendingCommitments = IF ok THEN @ \ {request.address} ELSE @]
       IN  auditState' =
             IF request.by = "loop" THEN [settled EXCEPT !.pc = "decide"]
             ELSE [settled EXCEPT !.allPc = "iterating"]
    /\ UNCHANGED allButAudit

NextAudit ==
    \/ AuditDecide
    \/ CommitSucceeds
    \/ CommitFails
    \/ AuditAlertDone
    \/ RevealAllStart
    \/ RevealAllStep
    \/ \E request \in auditState.inflight : \E ok \in BOOLEAN :
         RevealSettles(request, ok)

SpecAudit == InitAudit /\ [][NextAudit]_vars

\* ------------------------------------------------------- GET /health
\* checkRPCConnection(): getSlot() resolves or rejects.
checkRPCConnection(rpc) == IF rpc = "up" THEN "connected" ELSE "disconnected"

\* determineOverallHealth(connectionStatus), reading this.serviceStatus.
determineOverallHealth(connectionStatus, status) ==
    LET servicesDown == Cardinality({k \in DOMAIN status : ~status[k]})
    IN  IF connectionStatus = "disconnected" THEN "unhealthy"
        ELSE IF servicesDown = 0 THEN "healthy"
        ELSE IF servicesDown <= 2 THEN "degraded"
        ELSE "unhealthy"

InitHealth ==
    /\ now = Epoch
    /\ webhooks \in SentinelSinkLists
    /\ InitAlertSystem
    /\ InitSentinelFields("top")
    /\ InitDataExcept("health")
    /\ healthState = [pc |-> "idle", rpc |-> "up", connectionStatus |-> "unknown",
                      reported |-> "none"]

\* The RPC endpoint stops answering, for good.
RpcFails ==
    /\ healthState.rpc = "up"
    /\ healthState' = [healthState EXCEPT !.rpc = "down"]
    /\ UNCHANGED allButHealth

\* A cycle of the loop: with the RPC endpoint down every protocol query
\* fails inside its fetcher and the fetch returns no position.
LoopFetchOverRpc ==
    LoopFetchFrom(IF healthState.rpc = "down" THEN {<<>>} ELSE LiveFetchResults)

\* GET /health: the handler awaits checkRPCConnection().
HealthRequest ==
    /\ ~processExited
    /\ healthState.pc = "idle"
    /\ healthState' = [healthState EXCEPT !.pc = "checking"]
    /\ UNCHANGED allButHealth

\* getSlot() has settled: the handler answers with the overall health.
HealthRespond ==
    /\ ~processExited
    /\ healthState.pc = "checking"
    /\ LET connectionStatus == checkRPCConnection(healthState.rpc)
       IN  healthState' =
             [healthState EXCEPT
                !.pc = "idle", !.connectionStatus = connectionStatus,
                !.reported = determineOverallHealth(connectionStatus, serviceStatus)]
    /\ UNCHANGED allButHealth

\* The loop and the health endpoint of a process that gets no signal.
NextHealth ==
    \/ RpcFails
    \/ HealthRequest
    \/ HealthRespond
    \/ LoopFetchOverRpc
    \/ LoopFetchFails
    \/ LoopEvaluate
    \/ LoopAlertDone
    \/ LoopPredict
    \/ LoopPredictDone
    \/ LoopEndCycle
    \/ LoopWake
    \/ SinkStep
    \/ SleepTick

SpecHealth == InitHealth /\ [][NextHealth]_vars

\* ------------------------------------------ PositionMonitor.fetchAllPositions
\* The protocols queried for every watched address, in the order of the awaits.
Protocols == <<"marginfi", "kamino", "drift">>

\* A watched address is a string that new PublicKey() accepts or rejects.
WatchLists == [1..MaxAddresses -> [valid : BOOLEAN]]

\* What getProgramAccounts does for each address and protocol: it fails, or
\* it returns one account.
QueryOutcomes == [(1..MaxAddresses) \X (1..Len(Protocols)) -> {"fail", "ok"}]

\* The position built from the account of address a at protocol p.
PositionAt(a, p) ==
    [id |-> <<a, p>>, protocol |-> Protocols[p], collateral |-> <<>>, debt |-> <<>>,
     healthFactor |-> placeholderHealthFactor]

\* Mutant: the protocol query has no try/catch of its own.
fetchProtocolPositionsRethrow(outcome, a, p) ==
    IF outcome[<<a, p>>] = "fail" THEN [threw |-> TRUE, positions |-> <<>>]
    ELSE [threw |-> FALSE, positions |-> <<PositionAt(a, p)>>]

\* fetch{Marginfi,Kamino,Drift}Positions(owner): the query runs in the
\* function's own try/catch, so a failure yields the (empty) list built so
\* far and is not thrown on.
fetchProtocolPositions(outcome, a, p) ==
    IF outcome[<<a, p>>] = "fail" THEN [threw |-> FALSE, positions |-> <<>>]
    ELSE [threw |-> FALSE, positions |-> <<PositionAt(a, p)>>]

InitFetch ==
    /\ now = Epoch
    /\ webhooks = <<>>
    /\ InitAlertSystem
    /\ InitSentinelFields("off")
    /\ InitDataExcept("fetch")
    /\ \E watched \in WatchLists : \E outcome \in QueryOutcomes :
          fetchState = [NoFetch EXCEPT !.pc = "idle", !.watched = watched,
                                       !.outcome = outcome]

\* fetchAllPositions() is called: const positions = [].
FetchStart ==
    /\ fetchState.pc = "idle"
    /\ fetchState' = [fetchState EXCEPT !.pc = "address", !.addr = 1,
                                        !.result = <<>>]
    /\ UNCHANGED allButFetch

\* for (const address of watchedAddresses) { try { new PublicKey(address):
\* an invalid address throws into the catch of the loop body.
FetchAddress ==
    /\ fetchState.pc = "address"
    /\ fetchState.addr <= Len(fetchState.watched)
    /\ fetchState' =
          IF fetchState.watched[fetchState.addr].valid
          THEN [fetchState EXCEPT !.pc = "query", !.proto = 1, !.buf = <<>>]
          ELSE [fetchState EXCEPT !.addr = @ + 1]
    /\ UNCHANGED allButFetch

\* One awaited protocol query ends.  After the third the three lists are
\* pushed to the result; an exception would leave the try block before the
\* push and end this address.
FetchQuery ==
    /\ fetchState.pc = "query"
    /\ LET a == fetchState.addr
           p == fetchState.proto
           r == fetchProtocolPositions(fetchState.outcome, a, p)
           buf == fetchState.buf \o r.positions
       IN  fetchState' =
             IF r.threw
             THEN [fetchState EXCEPT !.pc = "address", !.addr = a + 1, !.buf = <<>>]
             ELSE IF p < Len(Protocols)
             THEN [fetchState EXCEPT !.proto = p + 1, !.buf = buf]
             ELSE [fetchState EXCEPT !.pc = "address", !.addr = a + 1,
                                     !.buf = <<>>, !.result = @ \o buf]
    /\ UNCHANGED allButFetch

\* The for loop is over: return positions.
FetchReturn ==
    /\ fetchState.pc = "address"
    /\ fetchState.addr > Len(fetchState.watched)
    /\ fetchState' = [fetchState EXCEPT !.pc = "done"]
    /\ UNCHANGED allButFetch

NextFetch ==
    \/ FetchStart
    \/ FetchAddress
    \/ FetchQuery
    \/ FetchReturn

SpecFetch == InitFetch /\ [][NextFetch]_vars

\* -------------------------------------- MarginfiMonitor.getAccountsByOwner
\* A Buffer is the sequence of its bytes; offsets count from 0 as in the code.
\* Buffer.slice(start, end) clamps to the buffer and never throws.
BufferSlice(data, start, end) == SubSeq(data, start + 1, Min(end, Len(data)))

\* Buffer.readUInt8 / readUInt32LE throw ERR_OUT_OF_RANGE past the end.
OutOfRange(data, offset, width) == offset + width > Len(data)

\* An integer read at offset, kept as its little-endian bytes.
ReadBytes(data, offset, width) == SubSeq(data, offset + 1, offset + width)
IsZero(bytes) == \A i \in 1..Len(bytes) : bytes[i] = 0

\* One balance slot: active (1), bankPk (32), assetShares (8),
\* liabilityShares (8), emissionsOutstanding (8), lastUpdate (8), padding (8).
BalanceWidth == 1 + 32 + 8 + 8 + 8 + 8 + 8
BalanceOffset(i) == marginfiHeaderLen + i * BalanceWidth

\* The throwing reads of parseAccount, as <<offset, width>>: per slot the
\* readUInt8 of `active` and the two readUInt32LE of each readBigUInt64LE,
\* and the readUInt8 of accountType after the slots.
ParseAccountReads ==
    UNION {{<<BalanceOffset(i), 1>>}
           \cup {<<BalanceOffset(i) + 33 + 4 * k, 4>> : k \in 0..7} :
              i \in 0..(marginfiBalanceSlots - 1)}
    \cup {<<BalanceOffset(marginfiBalanceSlots), 1>>}

\* The slot i of the account as parseAccount reads it.
ParseBalance(data, i) ==
    [active |-> ReadBytes(data, BalanceOffset(i), 1)[1] = 1,
     bankPk |-> BufferSlice(data, BalanceOffset(i) + 1, BalanceOffset(i) + 33),
     assetShares |-> ReadBytes(data, BalanceOffset(i) + 33, 8),
     liabilityShares |-> ReadBytes(data, BalanceOffset(i) + 41, 8)]

\* parseAccount(address, data): the discriminator is sliced and not looked
\* at; a read past the end of the buffer throws.
parseAccount(address, data) ==
    IF \E r \in ParseAccountReads : OutOfRange(data, r[1], r[2])
    THEN [threw |-> TRUE, address |-> address, owner |-> <<>>, balances |-> <<>>]
    ELSE [threw |-> FALSE, address |-> address,
          owner |-> BufferSlice(data, 8, 40),
          balances |->
              SelectSeq([k \in 1..marginfiBalanceSlots |-> ParseBalance(data, k - 1)],
                        LAMBDA b : b.active /\ (~IsZero(b.assetShares)
                                                 \/ ~IsZero(b.liabilityShares)))]

\* The 8-byte discriminator of a marginfi account, and another one.
AccountDiscriminator == [i \in 1..8 |-> 1]
OtherDiscriminator == [i \in 1..8 |-> 2]

\* Account data of `len` bytes: the discriminator, owner and group, then the
\* balance slots, of which the first holds `shares` asset shares.
MakeAccountData(len, discriminator, active, shares) ==
    [o \in 1..len |->
        IF o <= 8 THEN discriminator[o]
        ELSE IF o <= marginfiHeaderLen THEN 7
        ELSE IF o = BalanceOffset(0) + 1 THEN active
        ELSE IF o = BalanceOffset(0) + 33 + 1 THEN shares
        ELSE 0]

\* What getProgramAccounts can hand to the decoder: whole accounts, and
\* buffers cut short inside the header, inside the slots and after them.
AccountDatas ==
    {MakeAccountData(len, d, a, 5) :
        len \in {40, BalanceOffset(marginfiBalanceSlots),
                 BalanceOffset(marginfiBalanceSlots) + 1, marginfiAccountSize},
        d \in {AccountDiscriminator, OtherDiscriminator},
        a \in {0, 1}}

InitDecode ==
    /\ now = Epoch
    /\ webhooks = <<>>
    /\ InitAlertSystem
    /\ InitSentinelFields("off")
    /\ InitDataExcept("decode")
    /\ \E accounts \in [1..MaxAccounts -> AccountDatas] :
          decodeState = [NoDecode EXCEPT !.pc = "idle", !.accounts = accounts]

\* getAccountsByOwner(owner): getProgramAccounts has returned the accounts.
OwnerQueryStart ==
    /\ decodeState.pc = "idle"
    /\ decodeState' = [decodeState EXCEPT !.pc = "parse", !.idx = 1,
                                          !.parsedAccounts = <<>>]
    /\ UNCHANGED allButDecode

\* for (const acc of accounts): parseAccount, push.  An exception leaves the
\* loop for the catch of the function, which returns [].
OwnerQueryParse ==
    /\ decodeState.pc = "parse"
    /\ decodeState.idx <= Len(decodeState.accounts)
    /\ LET parsed == parseAccount(decodeState.idx,
                                  decodeState.accounts[decodeState.idx])
       IN  decodeState' =
             IF parsed.threw
             THEN [decodeState EXCEPT !.pc = "done", !.result = <<>>]
             ELSE [decodeState EXCEPT !.idx = @ + 1,
                                      !.parsedAccounts = Append(@, parsed)]
    /\ UNCHANGED allButDecode

\* return parsedAccounts.
OwnerQueryReturn ==
    /\ decodeState.pc = "parse"
    /\ decodeState.idx > Len(decodeState.accounts)
    /\ decodeState' = [decodeState EXCEPT !.pc = "done",
                                          !.result = decodeState.parsedAccounts]
    /\ UNCHANGED allButDecode

NextDecode ==
    \/ OwnerQueryStart
    \/ OwnerQueryParse
    \/ OwnerQueryReturn

SpecDecode == InitDecode /\ [][NextDecode]_vars

\* ------------------------------------------- DriftMonitor.parsePositions
\* parseUser: the offset at which the position slots start.
driftPositionsOffset == 8 + 32 + 2 + 6 + 16 + 16 + 8 + 8 + 2 + 6 + 8 + 8

\* marketIndex === 65535, as the two bytes of readUInt16LE.
UnusedMarketIndex == <<255, 255>>

\* The bytes parsePositions walks over for a slot that is in use: marketIndex,
\* three i128, i64, u8, three i128, u64, i32, i8 and 7 bytes of padding.
OccupiedAdvance == 2 + 16 + 16 + 16 + 8 + 1 + 16 + 16 + 16 + 8 + 4 + 1 + 7

\* The bytes it walks over for a slot marked unused.
UnusedAdvance == 2 + driftSentinelSkip

\* The slot array has one width for all slots; the code implies two.
SlotWidths == {OccupiedAdvance, UnusedAdvance}

\* readI128: the 16 bytes the number is made of.
readI128(data, offset) == ReadBytes(data, offset, 16)

\* The fields of the slot that starts at `offset`.
ReadPosition(data, offset) ==
    [marketIndex |-> ReadBytes(data, offset, 2),
     baseAssetAmount |-> readI128(data, offset + 2),
     quoteAssetAmount |-> readI128(data, offset + 18)]

\* The final filter: baseAssetAmount !== 0 || quoteAssetAmount !== 0.
HasAmount(pos) == ~IsZero(pos.baseAssetAmount) \/ ~IsZero(pos.quoteAssetAmount)

SlotKinds == {"unused", "empty", "open"}

\* A user account whose slot k (from 0) is of kinds[k + 1]: an unused slot
\* carries the sentinel index, an empty one only zeros, an open one the market
\* k + 1 and amounts of its own.
MakeUserData(width, kinds) ==
    [o \in 1..(driftPositionsOffset + driftPositionSlots * width) |->
        IF o <= driftPositionsOffset THEN 0
        ELSE LET k == (o - 1 - driftPositionsOffset) \div width
                 rel == (o - 1 - driftPositionsOffset) % width
             IN  CASE kinds[k + 1] = "unused" -> IF rel < 2 THEN 255 ELSE 0
                   [] kinds[k + 1] = "empty" -> 0
                   [] OTHER -> IF rel = 0 THEN k + 1
                               ELSE IF rel = 2 THEN 10 + k
                               ELSE IF rel = 18 THEN 20 + k
                               ELSE 0]

\* The slot contents tried: the leading slots vary, the others are empty.
SlotKindLists ==
    {[k \in 1..driftPositionSlots |-> IF k <= Len(lead) THEN lead[k] ELSE "empty"] :
        lead \in [1..Min(MaxVariedSlots, driftPositionSlots) -> SlotKinds]}

InitSlots ==
    /\ now = Epoch
    /\ webhooks = <<>>
    /\ InitAlertSystem
    /\ InitSentinelFields("off")
    /\ InitDataExcept("slots")
    /\ \E width \in SlotWidths : \E kinds \in SlotKindLists :
          slotState = [pc |-> "idle", width |-> width,
                       data |-> MakeUserData(width, kinds),
                       i |-> 0, offset |-> 0, positions |-> <<>>, result |-> <<>>]

\* parsePositions(data, startOffset): let offset = startOffset.
ParsePositionsStart ==
    /\ slotState.pc = "idle"
    /\ slotState' = [slotState EXCEPT !.pc = "slot", !.offset = driftPositionsOffset]
    /\ UNCHANGED allButSlot

\* One turn of the for loop: an unused slot is stepped over, any other slot
\* is read, priced and pushed.
ParseSlot ==
    /\ slotState.pc = "slot"
    /\ slotState.i < driftPositionSlots
    /\ LET marketIndex == ReadBytes(slotState.data, slotState.offset, 2)
       IN  slotState' =
             IF marketIndex = UnusedMarketIndex
             THEN [slotState EXCEPT !.i = @ + 1, !.offset = @ + UnusedAdvance]
             ELSE [slotState EXCEPT
                     !.i = @ + 1, !.offset = @ + OccupiedAdvance,
                     !.positions = Append(@, ReadPosition(slotState.data,
                                                          slotState.offset))]
    /\ UNCHANGED allButSlot

\* return positions.filter(...).
ParsePositionsReturn ==
    /\ slotState.pc = "slot"
    /\ slotState.i = driftPositionSlots
    /\ slotState' = [slotState EXCEPT !.pc = "done",
                                      !.result = SelectSeq(slotState.positions, HasAmount)]
    /\ UNCHANGED allButSlot

NextSlots ==
    \/ ParsePositionsStart
    \/ ParseSlot
    \/ ParsePositionsReturn

SpecSlots == InitSlots /\ [][NextSlots]_vars

\* ------------------------------------------------------------ RiskEngine
\* Money is in cents, health factors and weights in hundredths, volatilities
\* and velocities in thousandths, probabilities in 1e-7.
Abs(x) == IF x < 0 THEN 0 - x ELSE x

RECURSIVE SumValueUsd(_)
\* list.reduce((sum, c) => sum + c.valueUsd, 0)
SumValueUsd(list) ==
    IF list = <<>> THEN 0 ELSE list[1].valueUsd + SumValueUsd(Tail(list))

\* The two revisions of the engine in the source file.
EngineRevisions == {"current", "previous"}

\* config.mlWeights as the constructor fills them in.
mlWeights(revision) ==
    IF revision = "current"
    THEN [healthFactor |-> 25, volatility |-> 20, trend |-> 15, volume |-> 10,
          correlation |-> 10, momentum |-> 10, technical |-> 10]
    ELSE [healthFactor |-> 35, volatility |-> 25, trend |-> 20, volume |-> 10,
          correlation |-> 10]

\* totalDebt > 0 ? totalCollateral / totalDebt : Infinity, in hundredths.
HealthFactorRatio(totalCollateral, totalDebt) ==
    IF totalDebt > 0 THEN (totalCollateral * 100) \div totalDebt ELSE Infinity

\* calculateLiquidationPrice(position), in cents per unit.
calculateLiquidationPrice(revision, position) ==
    LET totalCollateral == SumValueUsd(position.collateral)
        totalDebt == SumValueUsd(position.debt)
    IN  IF revision = "current"
        THEN IF position.collateral = <<>> \/ position.debt = <<>> THEN 0
             ELSE IF totalCollateral = 0 \/ totalDebt = 0 THEN 0
             ELSE (totalDebt * 85) \div (100 * position.collateral[1].amount)
        ELSE IF position.collateral = <<>> \/ totalDebt = 0 THEN 0
             ELSE (totalDebt * 80) \div (100 * position.collateral[1].amount)

\* getCurrentPrice(position): 0 without collateral, else the price of the
\* feed and, when the feed has none, the price recorded in the position, or
\* 1 USD.
getCurrentPrice(revision, position, market) ==
    IF position.collateral = <<>> THEN 0
    ELSE IF revision = "current"
         THEN IF market.feedPrice # NA THEN market.feedPrice
              ELSE IF position.collateral[1].priceUsd # NA
                   THEN position.collateral[1].priceUsd
                   ELSE 100
         ELSE position.collateral[1].valueUsd \div position.collateral[1].amount

\* calculateRisk(position): the fields the prediction reads.
calculateRiskOf(revision, position, market) ==
    [healthFactor |-> HealthFactorRatio(SumValueUsd(position.collateral),
                                        SumValueUsd(position.debt)),
     liquidationPrice |-> calculateLiquidationPrice(revision, position),
     currentPrice |-> getCurrentPrice(revision, position, market)]

\* riskScore.distanceToLiquidation < percent, where the distance is
\* ((currentPrice - liquidationPrice) / currentPrice) * 100: NaN, and so below
\* nothing, for a position without collateral.
DistanceBelow(riskScore, percent) ==
    /\ riskScore.currentPrice > 0
    /\ (riskScore.currentPrice - riskScore.liquidationPrice) * 100
         < percent * riskScore.currentPrice

\* x * (m / 100) for a contribution x, which is a multiple of 100.
Scaled(x, m) == (x \div 100) * m

\* What one factor adds to the three probabilities.
Contribution(risk, m30, m60) ==
    [probability |-> risk, thirtyMinuteProbability |-> Scaled(risk, m30),
     hourlyProbability |-> Scaled(risk, m60)]
Fixed(p, p30, p60) ==
    [probability |-> p, thirtyMinuteProbability |-> p30, hourlyProbability |-> p60]
NoContribution == Fixed(0, 0, 0)

\* (a) the health factor bands.
healthContribution(revision, hf) ==
    LET w == mlWeights(revision).healthFactor
    IN  IF revision = "current"
        THEN IF hf < 105 THEN Contribution((105 - hf) * 12 * w * 1000, 180, 150)
             ELSE IF hf < 110 THEN Contribution((110 - hf) * 10 * w * 1000, 150, 120)
             ELSE IF hf < 130 THEN Contribution((130 - hf) * 4 * w * 1000, 120, 110)
             ELSE NoContribution
        ELSE IF hf < 105 THEN Contribution((105 - hf) * 10 * w * 1000, 150, 0)
             ELSE IF hf < 110 THEN Contribution((110 - hf) * 8 * w * 1000, 130, 0)
             ELSE IF hf < 130 THEN Contribution((130 - hf) * 3 * w * 1000, 110, 0)
             ELSE NoContribution

\* (b) volatility clustering.
volatilityContribution(revision, market) ==
    LET w == mlWeights(revision).volatility
        g == market.garchVolatility
        v == market.volatilityOfVolatility
    IN  IF revision = "current"
        THEN IF g > 100 \/ v > 50
             THEN Contribution(Max((g - 80) * 6, (v - 30) * 8) * w * 100, 140, 120)
             ELSE IF g > 50 \/ v > 30
             THEN Contribution(Max((g - 50) * 4, (v - 20) * 5) * w * 100, 120, 110)
             ELSE NoContribution
        ELSE IF g > 80 THEN Contribution((g - 80) * 5 * w * 100, 120, 0)
             ELSE IF g > 50 THEN Contribution((g - 50) * 3 * w * 100, 110, 0)
             ELSE NoContribution

\* (c) the distance to the liquidation price.
distanceContribution(revision, riskScore) ==
    IF revision = "current"
    THEN IF DistanceBelow(riskScore, 3) THEN Fixed(6000000, 8000000, 7000000)
         ELSE IF DistanceBelow(riskScore, 5) THEN Fixed(4000000, 6000000, 5000000)
         ELSE IF DistanceBelow(riskScore, 10) THEN Fixed(2500000, 3500000, 3000000)
         ELSE IF DistanceBelow(riskScore, 20) THEN Fixed(1000000, 1500000, 1200000)
         ELSE NoContribution
    ELSE IF DistanceBelow(riskScore, 5) THEN Fixed(4000000, 6000000, 0)
         ELSE IF DistanceBelow(riskScore, 10) THEN Fixed(2500000, 3500000, 0)
         ELSE IF DistanceBelow(riskScore, 20) THEN Fixed(1000000, 1500000, 0)
         ELSE NoContribution

\* (d) price velocity and momentum.
trendContribution(revision, market) ==
    LET w == mlWeights(revision).trend
        pv == market.priceVelocity
        ms == market.momentumScore
    IN  IF revision = "current"
        THEN IF pv < 0 - 30 \/ ms < 0 - 50
             THEN Contribution(Max(Abs(pv) * 6, Abs(ms) * 4) * w * 100, 160, 130)
             ELSE IF pv < 0 - 20 \/ ms < 0 - 30
             THEN Contribution(Max(Abs(pv) * 4, Abs(ms) * 3) * w * 100, 140, 120)
             ELSE IF pv < 0 - 10 \/ ms < 0 - 20
             THEN Contribution(Max(Abs(pv) * 3, Abs(ms) * 2) * w * 100, 120, 110)
             ELSE NoContribution
        ELSE IF pv < 0 - 20 THEN Contribution(Abs(pv) * 5 * w * 100, 140, 0)
             ELSE IF pv < 0 - 10 THEN Contribution(Abs(pv) * 3 * w * 100, 120, 0)
             ELSE NoContribution

\* (e) oversold technical indicators (current revision only).
technicalContribution(revision, market) ==
    IF revision # "current" THEN NoContribution
    ELSE LET w == mlWeights(revision).technical
         IN  IF market.rsi < 20 /\ market.macdHistogram < 0 - 50 /\ market.stochasticK < 20
             THEN Contribution(30 * w * 1000, 130, 110)
             ELSE IF market.rsi < 30 \/ market.macdHistogram < 0 - 30
                     \/ market.stochasticK < 30
             THEN Contribution(15 * w * 1000, 120, 110)
             ELSE NoContribution

\* (f) the price below the lower Bollinger band (current revision only):
\* currentPrice < bollinger.lower * 0.98.
bollingerContribution(revision, riskScore, market) ==
    IF revision = "current" /\ riskScore.currentPrice * 100 < market.bollingerLower * 98
    THEN Fixed(1000000, 1500000, 1200000)
    ELSE NoContribution

\* (g) the bearish alignment of the moving averages.
movingAverageContribution(revision, market) ==
    LET w == mlWeights(revision).trend
        ma == market.movingAverages
    IN  IF revision = "current"
        THEN IF ma.sma5 < ma.sma20 /\ ma.sma20 < ma.sma50 /\ ma.ema5 < ma.ema20
             THEN Fixed(8 * w * 1000, 12 * w * 1000, 10 * w * 1000)
             ELSE NoContribution
        ELSE IF ma.sma5 < ma.sma20 THEN Fixed(5 * w * 1000, 8 * w * 1000, 0)
             ELSE NoContribution

\* (h) a volume spike, in tenths, and the liquidity score.
volumeContribution(revision, market) ==
    LET w == mlWeights(revision).volume
        vp == market.volumeProfile
    IN  IF revision = "current"
        THEN IF vp > 30 /\ market.liquidityScore < 30
             THEN Contribution((vp - 20) * 15 * w * 100, 120, 110)
             ELSE IF vp > 25 THEN Contribution((vp - 20) * 10 * w * 100, 110, 105)
             ELSE NoContribution
        ELSE IF vp > 20 THEN Contribution((vp - 20) * 10 * w * 100, 110, 0)
             ELSE NoContribution

\* (i) the correlation with the market, and the market sentiment.
correlationContribution(revision, market) ==
    LET w == mlWeights(revision).correlation
        cs == market.correlationScore
    IN  IF revision = "current"
        THEN IF cs > 85 /\ market.marketSentiment < 0 - 50
             THEN Contribution((cs - 70) * 8 * w * 100, 130, 120)
             ELSE IF cs > 80 THEN Contribution((cs - 80) * 5 * w * 100, 120, 110)
             ELSE NoContribution
        ELSE IF cs > 80 THEN Contribution((cs - 80) * 5 * w * 100, 120, 0)
             ELSE NoContribution

\* The contributions predictLiquidation adds up, in its order.
Contributions(revision, riskScore, market) ==
    <<healthContribution(revision, riskScore.healthFactor),
      volatilityContribution(revision, market),
      distanceContribution(revision, riskScore),
      trendContribution(revision, market),
      technicalContribution(revision, market),
      bollingerContribution(revision, riskScore, market),
      movingAverageContribution(revision, market),
      volumeContribution(revision, market),
      correlationContribution(revision, market)>>

RECURSIVE SumField(_, _)
SumField(list, field) ==
    IF list = <<>> THEN 0 ELSE list[1][field] + SumField(Tail(list), field)

\* Mutant: the probabilities are returned as they were added up.
clampUnclamped(value, cap) == value

\* Math.min(value, cap).
clamp(value, cap) == Min(value, cap)

\* predictLiquidation(position): the current revision starts the overall
\* probability from the blend of its two sub-estimators and caps three
\* probabilities, the previous one starts from 0 and caps two.
predictLiquidationOf(revision, position, market) ==
    LET riskScore == calculateRiskOf(revision, position, market)
        added == Contributions(revision, riskScore, market)
    IN  IF revision = "current"
        THEN [probability |->
                  clamp(market.blend + SumField(added, "probability"), probabilityCap),
              thirtyMinuteProbability |->
                  clamp(SumField(added, "thirtyMinuteProbability"), thirtyMinuteCap),
              hourlyProbability |->
                  clamp(SumField(added, "hourlyProbability"), hourlyCap)]
        ELSE [probability |->
                  clamp(SumField(added, "probability"), previousProbabilityCap),
              thirtyMinuteProbability |->
                  clamp(SumField(added, "thirtyMinuteProbability"),
                        previousThirtyMinuteCap)]

\* A position with one collateral asset of 100 units and a debt of 100 USD,
\* whose health factor is hf hundredths.
MakePosition(hf) ==
    [id |-> <<hf, 0>>, protocol |-> "marginfi",
     collateral |-> <<[valueUsd |-> 100 * hf, amount |-> 100, priceUsd |-> hf]>>,
     debt |-> <<[valueUsd |-> 10000]>>,
     healthFactor |-> hf]

\* The positions assessed: on both sides of every band boundary, one with
\* collateral and no debt, and one as the position monitor builds them.
AssessedPositions ==
    {MakePosition(hf) : hf \in {90, 104, 105, 109, 110, 129, 130, 200}}
    \cup {[MakePosition(200) EXCEPT !.debt = <<>>, !.healthFactor = Infinity]}
    \cup {PositionAt(1, 1)}

\* A market in which no factor adds anything.
CalmMarket ==
    [blend |-> 0, feedPrice |-> NA, garchVolatility |-> 20,
     volatilityOfVolatility |-> 10, priceVelocity |-> 0, momentumScore |-> 0,
     rsi |-> 50, macdHistogram |-> 0, stochasticK |-> 50, bollingerLower |-> 0,
     movingAverages |-> [sma5 |-> 3, sma20 |-> 2, sma50 |-> 1, ema5 |-> 2, ema20 |-> 1],
     volumeProfile |-> 10, liquidityScore |-> 80, correlationScore |-> 50,
     marketSentiment |-> 0]

\* A market in which every factor adds its most.
StressedMarket ==
    [blend |-> 300000, feedPrice |-> NA, garchVolatility |-> 150,
     volatilityOfVolatility |-> 60, priceVelocity |-> 0 - 40, momentumScore |-> 0 - 60,
     rsi |-> 10, macdHistogram |-> 0 - 60, stochasticK |-> 10, bollingerLower |-> 300,
     movingAverages |-> [sma5 |-> 1, sma20 |-> 2, sma50 |-> 3, ema5 |-> 1, ema20 |-> 2],
     volumeProfile |-> 40, liquidityScore |-> 20, correlationScore |-> 90,
     marketSentiment |-> 0 - 60]

\* The value of the blend (neuralNetworkPrediction + ensemblePrediction) / 2
\* of the two sub-estimators: a small non-negative number.
Blends == {0, 300000}

\* The markets tried: calm, stressed, and calm but for one factor, which
\* takes a value in each of its bands.
Markets ==
    {CalmMarket, StressedMarket}
    \cup {[CalmMarket EXCEPT !.blend = b] : b \in Blends}
    \cup {[CalmMarket EXCEPT !.feedPrice = 150]}
    \cup {[CalmMarket EXCEPT !.garchVolatility = g] : g \in {70, 90, 150}}
    \cup {[CalmMarket EXCEPT !.volatilityOfVolatility = v] : v \in {40, 60}}
    \cup {[CalmMarket EXCEPT !.priceVelocity = 0 - v] : v \in {15, 25, 40}}
    \cup {[CalmMarket EXCEPT !.momentumScore = 0 - m] : m \in {25, 40, 60}}
    \cup {[CalmMarket EXCEPT !.rsi = 25],
          [CalmMarket EXCEPT !.rsi = 10, !.macdHistogram = 0 - 60, !.stochasticK = 10]}
    \cup {[CalmMarket EXCEPT !.bollingerLower = 300]}
    \cup {[CalmMarket EXCEPT !.movingAverages = StressedMarket.movingAverages]}
    \cup {[CalmMarket EXCEPT !.volumeProfile = 28],
          [CalmMarket EXCEPT !.volumeProfile = 40, !.liquidityScore = 20]}
    \cup {[CalmMarket EXCEPT !.correlationScore = 82],
          [CalmMarket EXCEPT !.correlationScore = 90, !.marketSentiment = 0 - 60]}

InitRisk ==
    /\ now = Epoch
    /\ webhooks = <<>>
    /\ InitAlertSystem
    /\ InitSentinelFields("off")
    /\ InitDataExcept("risk")
    /\ \E revision \in EngineRevisions : \E market \in Markets :
       \E assessed \in [1..MaxAssessed -> AssessedPositions] :
          riskState = [pc |-> "idle", revision |-> revision, market |-> market,
                       positions |-> assessed, idx |-> 0, riskScore |-> NoRisk,
                       results |-> <<>>]

\* The positions are assessed one after the other, as monitorLoop does.
AssessStart ==
    /\ riskState.pc = "idle"
    /\ riskState' = [riskState EXCEPT !.pc = "score", !.idx = 1]
    /\ UNCHANGED allButRisk

\* const riskScore = await this.riskEngine.calculateRisk(position).
AssessScore ==
    /\ riskState.pc = "score"
    /\ riskState.idx <= Len(riskState.positions)
    /\ riskState' = [riskState EXCEPT
                       !.pc = "predict",
                       !.riskScore = calculateRiskOf(riskState.revision,
                                                     riskState.positions[riskState.idx],
                                                     riskState.market)]
    /\ UNCHANGED allButRisk

\* const prediction = await this.riskEngine.predictLiquidation(position).
AssessPredict ==
    /\ riskState.pc = "predict"
    /\ LET position == riskState.positions[riskState.idx]
       IN  riskState' = [riskState EXCEPT
                           !.pc = "score", !.idx = @ + 1,
                           !.results = Append(@,
                               [position |-> position,
                                riskScore |-> riskState.riskScore,
                                prediction |-> predictLiquidationOf(riskState.revision,
                                                                    position,
                                                                    riskState.market)])]
    /\ UNCHANGED allButRisk

\* All positions have been assessed.
AssessDone ==
    /\ riskState.pc = "score"
    /\ riskState.idx > Len(riskState.positions)
    /\ riskState' = [riskState EXCEPT !.pc = "done"]
    /\ UNCHANGED allButRisk

NextRisk ==
    \/ AssessStart
    \/ AssessScore
    \/ AssessPredict
    \/ AssessDone

SpecRisk == InitRisk /\ [][NextRisk]_vars

\* ------------------------------------------------------------------ claims
Requests == 1..Len(reqLog)
SentTo(i, w) == reqLog[i].sinks[w] \in {"sent", "failed"}
FailedAt(i, w) == reqLog[i].sinks[w] = "failed"
SkippedAt(i, w) == reqLog[i].sinks[w] = "skipped"
InHistory(serial) == \E k \in 1..Len(alertHistory) : alertHistory[k].serial = serial

\* C1: of two critical alert requests for the same position, the second
\* starting less than the critical cooldown (30 s) after the first, only the
\* first is dispatched, also when the first is still awaiting its sinks.
C1_OneDispatchWithinCooldown ==
    \A i, j \in Requests :
        ( /\ i < j
          /\ reqLog[i].type = "critical" /\ reqLog[j].type = "critical"
          /\ reqLog[i].pos = reqLog[j].pos
          /\ reqLog[j].at - reqLog[i].at < criticalCooldown
          /\ reqLog[i].dispatched )
        => ~reqLog[j].dispatched

\* The threshold test that belongs to an alert of the history.
ThresholdCrossed(a) ==
    CASE a.type = "warning" -> shouldSendWarning(a)
      [] a.type = "critical" -> shouldSendCritical(a)
      [] a.type = "prediction" -> shouldSendPrediction(a)
      [] OTHER -> TRUE

\* C2: every warning, critical or prediction alert the coordinating loop
\* gets dispatched has its configured threshold crossed, and two dispatched
\* alerts of one (type, position) pair lie at least the cooldown apart.
C2_DispatchOnlyIfThresholdCrossed ==
    /\ \A k \in 1..Len(alertHistory) : ThresholdCrossed(alertHistory[k])
    /\ \A i, j \in 1..Len(alertHistory) :
          ( /\ i < j
            /\ alertHistory[i].type = alertHistory[j].type
            /\ alertHistory[i].positionId = alertHistory[j].positionId )
          => alertHistory[j].timestamp - alertHistory[i].timestamp
                 >= OrDefault(CustomCooldown(alertHistory[i].type), cooldownMs)

\* C11: the counters of a sink equal the numbers of events: delivery rounds
\* started (sent), rounds ended in terminal failure, rounds ended in success
\* (checked once no round is under way) and alerts skipped by the rate limit.
C11_StatsCountEvents ==
    \A w \in DOMAIN webhookStats :
        LET s == Cardinality({i \in Requests : SentTo(i, w)})
            k == Cardinality({i \in Requests : FailedAt(i, w)})
            h == Cardinality({i \in Requests : SkippedAt(i, w)})
        IN  /\ webhookStats[w].totalSent = s
            /\ webhookStats[w].failureCount = k
            /\ webhookStats[w].rateLimitHits = h
            /\ (\A c \in CallIds : callPc[c] = "idle")
                   => webhookStats[w].successCount = s - k

\* C3: a sink limited to N sends per minute is sent at most N alerts within
\* any 60-second window, for every configured N.
C3_AtMostNPerWindow ==
    \A w \in DOMAIN webhooks : \A j \in Requests :
        SentTo(j, w) =>
            Cardinality({i \in 1..j : SentTo(i, w)
                                      /\ reqLog[j].at - reqLog[i].at < rateWindow})
                <= webhooks[w].rateLimitPerMinute

\* The sends counted against request k at sink w, and the oldest of them.
CountedAt(k, w) == {i \in 1..(k - 1) : SentTo(i, w)
                                       /\ reqLog[k].at - reqLog[i].at < rateWindow}
OldestCounted(k, w) ==
    CHOOSE t \in {reqLog[i].at : i \in CountedAt(k, w)} :
        \A i \in CountedAt(k, w) : t <= reqLog[i].at

\* Request j is the next alert eligible for sink w after the skip at request k.
NextAfterSkip(k, j, w) ==
    /\ k < j
    /\ SkippedAt(k, w)
    /\ reqLog[j].sinks[w] # "na"
    /\ \A m \in (k + 1)..(j - 1) : reqLog[m].sinks[w] = "na"

\* C4: a sink skipped by its rate limit stays enabled, and once 60 s have
\* passed since the oldest send counted at the skip, the next alert eligible
\* for the sink is sent to it.
C4_SentAgainAfterRollover ==
    \A w \in DOMAIN webhooks : \A k, j \in Requests :
        ( /\ NextAfterSkip(k, j, w)
          /\ CountedAt(k, w) # {}
          /\ reqLog[j].at - OldestCounted(k, w) >= rateWindow )
        => (SentTo(j, w) /\ webhooks[w].enabled)

C4_Witness ==
    \E w \in DOMAIN webhooks : \E k, j \in Requests :
        /\ NextAfterSkip(k, j, w)
        /\ CountedAt(k, w) # {}
        /\ reqLog[j].at - OldestCounted(k, w) >= rateWindow
        /\ SentTo(j, w)

\* C5: while a dispatch awaits its sinks, every eligible sink that its rate
\* limit lets through has its own delivery under way or settled, whatever
\* the other sinks do: fail, be skipped, or not answer yet.
C5_SinksIndependent ==
    \A c \in CallIds : callPc[c] = "awaiting" =>
        \A w \in DOMAIN webhooks :
            shouldSendToWebhook(callAlert[c], webhooks[w]) =>
                /\ delivery[c][w].st \in {"skipped", "inflight", "ok", "failed"}
                /\ delivery[c][w].st # "skipped" => delivery[c][w].attempts >= 1

C5_Witness ==
    \E c \in CallIds :
        /\ callPc[c] = "awaiting"
        /\ delivery[c]["w1"].st \in {"failed", "skipped", "inflight"}
        /\ delivery[c]["w2"].st = "ok"

\* C6: the delivery attempts for one alert at one sink never exceed the
\* sink's configured retry-attempt cap, for every configured cap.
C6_AttemptsWithinCap ==
    \A c \in CallIds : \A w \in DOMAIN webhooks :
        delivery[c][w].attempts <= webhooks[w].retryAttempts

\* C7: a retry is issued only after the backoff delay that follows the
\* failed attempt (1 s doubling per attempt, capped at 10 s).
C7_BackoffBetweenAttempts ==
    \A c \in CallIds : \A w \in DOMAIN webhooks :
        (delivery[c][w].st = "inflight" /\ delivery[c][w].attempts >= 2)
            => delivery[c][w].retryGap >= BackoffDelay(delivery[c][w].attempts - 1)

\* C8: a terminal delivery failure is not propagated: no alert call ends
\* with an exception, the per-position catch of the loop is never entered
\* for one, and the loop only stops on shutdown.
C8_FailureNotPropagated ==
    /\ \A c \in CallIds : callResult[c] # "threw"
    /\ loopCaught # "alert"
    /\ serviceStatus.riskEngine
    /\ loopPc = "stopped" => isShuttingDown

\* Every attempt at the sink failed for the first position of a cycle, the
\* call returned, and the loop stands at the second position.
C8_Witness ==
    /\ callFailed["c1"]
    /\ callResult["c1"] = "returned"
    /\ callPc["c1"] = "idle"
    /\ loopPc = "position"
    /\ posIdx = 2
    /\ ~isShuttingDown

\* A critical alert for position id is in the history.
CriticalAlertFor(id) ==
    \E k \in 1..Len(alertHistory) :
        alertHistory[k].type = "critical" /\ alertHistory[k].positionId = id

C13_StopsAtPositionBoundary ==
    (processExited \/ loopPc = "stopped") =>
        /\ loopPc \in {"top", "position", "sleeping", "stopped"}
        /\ callPc["c1"] = "idle"

\* The ids of the positions a bulk fetch returned.
FetchedIds == {fetchState.result[i].id : i \in 1..Len(fetchState.result)}

\* C14: a bulk fetch returns, once each, the position of every protocol
\* query that did not fail, for every watched (valid) address, whichever
\* other protocol queries failed.
C14_ProtocolFailuresIsolated ==
    fetchState.pc = "done" =>
        /\ FetchedIds = {ap \in DOMAIN fetchState.outcome :
                            /\ fetchState.watched[ap[1]].valid
                            /\ fetchState.outcome[ap] = "ok"}
        /\ Len(fetchState.result) = Cardinality(FetchedIds)

\* The first address's marginfi query failed and its drift position is in
\* the result, as is a position of the second address.
C14_Witness ==
    /\ fetchState.pc = "done"
    /\ fetchState.outcome[<<1, 1>>] = "fail"
    /\ <<1, 3>> \in FetchedIds
    /\ \E p \in 1..Len(Protocols) : <<2, p>> \in FetchedIds

\* The addresses of the accounts an owner query returned.
DecodedAddresses == {decodeState.result[k].address : k \in 1..Len(decodeState.result)}

\* C15: an owner query returns every account whose bytes can be decoded,
\* whichever other accounts of the same query cannot.
C15_OnlyUndecodableSkipped ==
    decodeState.pc = "done" =>
        \A i \in 1..Len(decodeState.accounts) :
            ~parseAccount(i, decodeState.accounts[i]).threw => i \in DecodedAddresses

\* C16: an account record is only ever decoded from a whole buffer that
\* carries the account discriminator.
C16_MalformedBufferRejected ==
    \A k \in 1..Len(decodeState.parsedAccounts) :
        LET data == decodeState.accounts[decodeState.parsedAccounts[k].address]
        IN  /\ Len(data) = marginfiAccountSize
            /\ BufferSlice(data, 0, 8) = AccountDiscriminator

\* What slot k (from 0) of the account holds in its own bytes.
OwnSlot(k) == ReadPosition(slotState.data, driftPositionsOffset + k * slotState.width)

\* C17: the positions decoded from a user account are, in slot order, the
\* slots that are neither marked unused nor empty, each with the values of
\* its own bytes.
C17_SlotsDecodedFromOwnBytes ==
    slotState.pc = "done" =>
        slotState.result =
            SelectSeq([k \in 1..driftPositionSlots |-> OwnSlot(k - 1)],
                      LAMBDA pos : pos.marketIndex # UnusedMarketIndex /\ HasAmount(pos))

\* The assessments made so far.
Assessments == {riskState.results[k] : k \in 1..Len(riskState.results)}

\* C18: every prediction has 0 <= probability <= 0.98, a 30-minute
\* probability of at most 0.99 and, when it has one, an hourly probability of
\* at most 0.95.
C18_ProbabilitiesClamped ==
    \A r \in Assessments :
        /\ 0 <= r.prediction.probability
        /\ r.prediction.probability <= 9800000
        /\ r.prediction.thirtyMinuteProbability <= 9900000
        /\ "hourlyProbability" \in DOMAIN r.prediction
             => r.prediction.hourlyProbability <= 9500000

\* C18 witness: a prediction of the current revision whose three
\* probabilities all stand at their caps.
C18_Witness ==
    \E r \in Assessments :
        /\ riskState.revision = "current"
        /\ r.prediction.probability = 9800000
        /\ r.prediction.thirtyMinuteProbability = 9900000
        /\ r.prediction.hourlyProbability = 9500000

\* C19: of two positions assessed in the same market, the one with the lower
\* health factor has the higher or the same liquidation probability.
C19_ProbabilityMonotoneInHealth ==
    \A r1, r2 \in Assessments :
        r1.riskScore.healthFactor <= r2.riskScore.healthFactor
            => r1.prediction.probability >= r2.prediction.probability

\* C20: the health factor of a position, the one it carries and the one the
\* risk engine computes for it, is +infinity when its debt is zero and the
\* ratio of collateral to debt otherwise.
C20_HealthFactorInfiniteIffNoDebt ==
    \A r \in Assessments :
        LET totalCollateral == SumValueUsd(r.position.collateral)
            totalDebt == SumValueUsd(r.position.debt)
            expected == IF totalDebt = 0 THEN Infinity
                        ELSE (totalCollateral * 100) \div totalDebt
        IN  /\ r.riskScore.healthFactor = expected
            /\ r.position.healthFactor = expected

\* The alerts dispatched since the current cycle began.
CycleAlerts ==
    {alertHistory[k] : k \in {i \in 1..Len(alertHistory) :
                                 alertHistory[i].timestamp >= cycleStart}}

\* C28: within one cycle no position gets both a critical and a warning
\* alert, and no warning alert is for a health factor below the critical
\* threshold.
C28_CriticalOrWarning ==
    \A a \in CycleAlerts :
        a.type = "warning" =>
            /\ a.healthFactor >= criticalHealthThreshold
            /\ ~\E b \in CycleAlerts : b.type = "critical" /\ b.positionId = a.positionId

\* C28 witness: in one cycle the critical position got its critical alert
\* and the position at risk its warning alert.
C28_Witness ==
    /\ loopPc = "sleeping"
    /\ positions[1].condition = "critical"
    /\ positions[2].condition = "atRisk"
    /\ \E a \in CycleAlerts : a.type = "critical" /\ a.positionId = "p1"
    /\ \E a \in CycleAlerts : a.type = "warning" /\ a.positionId = "p2"

\* C29: no commitment has more than one reveal to its name, counting the
\* reveals that succeeded and the reveal transactions still in flight.
C29_RevealedAtMostOnce ==
    auditState.pc # "off" =>
        \A address \in DOMAIN auditState.revealed :
            auditState.revealed[address]
                + Cardinality({request \in auditState.inflight :
                                 request.address = address}) <= 1

\* C30: no two alerts in the history have the same id.
C30_AlertIdsUnique ==
    \A i, j \in 1..Len(alertHistory) :
        i # j => alertHistory[i].id # alertHistory[j].id

\* C27: the pause at the end of a cycle is at most the cycle time, and
\* every cycle is followed by another one unless shutdown is requested,
\* whatever failed in it.
C27_LoopKeepsCycling ==
    /\ [](loopPc = "sleeping" => sleepUntil - now <= cycleMs)
    /\ [](loopPc = "stopped" => isShuttingDown)
    /\ \A n \in 0..(MaxCycles - 1) : (cycles = n) ~> (cycles = n + 1 \/ isShuttingDown)

\* C27 witness: a cycle has started after one whose fetch failed.
C27_Witness ==
    /\ cycles >= 2
    /\ loopCaught = "fetch"
    /\ loopPc = "position"
    /\ ~isShuttingDown

\* C21 as stated: after an unbroken run of calls over all-zero log-returns
\* the reported volatility is sqrt(omega / (1 - alpha - beta) * periods-per-
\* year).
C21_ConvergesToLongRunLevel ==
    garchState.pc = "on" /\ garchState.zeroCalls = MaxGarchCalls
        => garchState.volatility = LongRunVolatility

\* C21 amended: after an unbroken run of calls over all-zero log-returns the
\* reported volatility is sqrt(omega / (1 - beta) * periods-per-year), which
\* is not zero.
C21_ConvergesToZeroReturnLevel ==
    garchState.pc = "on" /\ garchState.zeroCalls = MaxGarchCalls
        => /\ garchState.volatility = ZeroReturnVolatility
           /\ garchState.volatility > 0

C21_Witness ==
    /\ garchState.pc = "on"
    /\ garchState.zeroCalls = MaxGarchCalls
    /\ garchState.stored.set
    /\ Len(garchState.prices) > garchMinReturns

C25_BackoffBoundedAndMonotone ==
    channelState.pc # "off" =>
        /\ \A i \in 1..Len(channelState.delays) :
               /\ channelState.delays[i] <= channelState.config.maxDelayMs
               /\ i > 1 => channelState.delays[i - 1] <= channelState.delays[i]
        /\ Len(channelState.delays) <= channelState.config.maxAttempts
        /\ channelState.attempted <= channelState.config.maxAttempts
        /\ channelState.pc = "Reconnecting" =>
               channelState.attempted < channelState.config.maxAttempts

C25_Witness ==
    /\ channelState.pc = "Failed"
    /\ channelState.attempted = channelState.config.maxAttempts
    /\ Len(channelState.delays) = channelState.config.maxAttempts
    /\ channelState.delays[1] < channelState.config.maxDelayMs
    /\ channelState.delays[Len(channelState.delays)] = channelState.config.maxDelayMs

\* C26: a position whose account disappeared gets exactly one Deleted event
\* (none before the disappearance, one once the scan after it has run, never
\* a second), and a bulk fetch begun after the disappearance does not
\* contain it.
C26_DeletedOnceAndNotFetched ==
    scanState.pc = "on" =>
        \A id \in ScanIds :
            /\ EventCount(id, "deleted") <= 1
            /\ EventCount(id, "deleted") = 1 => scanState.chain[id].life = "gone"
            /\ ( /\ scanState.chain[id].life = "gone"
                 /\ EventCount(id, "created") = 1
                 /\ ~scanState.stored[id].known )
                   => EventCount(id, "deleted") = 1
            /\ id \in scanState.goneAtResult => id \notin scanState.positions

C26_Witness ==
    /\ scanState.pc = "on"
    /\ EventCount("pos1", "deleted") = 1
    /\ "pos1" \in scanState.goneAtResult
    /\ scanState.positions = {"pos2"}
    /\ EventCount("pos2", "updated") = 1

\* C23: with or without the guard, once the loop has reached a decision the
\* alerts dispatched are those of the loop without the guard, in its order:
\* no alert is missing or waiting on a commit or reveal.
C23_AlertsIndependentOfAuditHook ==
    auditState.pc # "off" =>
        auditState.dispatched = AlertsOfCore(auditState.work, auditState.reached)

\* C24: a health query made while the RPC endpoint is down reports the
\* status "degraded", and the process neither exits nor leaves its loop.
C24_TransportFailureDegrades ==
    /\ (healthState.connectionStatus = "disconnected" /\ healthState.rpc = "down")
           => healthState.reported = "degraded"
    /\ ~processExited
    /\ loopPc # "stopped"

\* C9: every dispatched alert is in the history, whatever its sinks did.
C9_DispatchedInHistory ==
    \A i \in Requests : reqLog[i].dispatched => InHistory(reqLog[i].serial)

C9_Witness ==
    /\ callPc["c1"] = "awaiting"
    /\ delivery["c1"]["w1"].st = "skipped"
    /\ delivery["c1"]["w2"].st = "failed"
    /\ InHistory(callAlert["c1"].serial)

\* C10: the history holds at most 1000 alerts, and they are the most recent
\* ones in dispatch order (the oldest is the one evicted); getAlertHistory
\* returns the most recent of them.
C10_HistoryBounded ==
    /\ Len(alertHistory) <= historyCap
    /\ Len(alertHistory) = Min(alertSerial, historyCap)
    /\ \A k \in 1..Len(alertHistory) :
          alertHistory[k].serial = alertSerial - Len(alertHistory) + k
    /\ LET recent == getAlertHistory(alertHistory, historyDefaultLimit)
       IN  /\ Len(recent) = Min(Len(alertHistory), historyDefaultLimit)
           /\ \A k \in 1..Len(recent) : recent[k].serial = alertSerial - Len(recent) + k

C10_Witness ==
    /\ Len(alertHistory) = historyCap
    /\ alertSerial > historyCap
    /\ alertHistory[1].serial = alertSerial - historyCap + 1

====
